---- MODULE Spec2Model ----
(***************************************************************************)
(* containerd-registry-cache: the cache-or-proxy engine                    *)
(* (pkg/service/service.go, CacheService.GetObject) over the file store    *)
(* (pkg/cache/cache_file.go, FileCache / FileWriter) and the naming        *)
(* function ObjectToCacheName.                                             *)
(*                                                                         *)
(* The cache directory is a map from path to file content.  Every request  *)
(* is one handler goroutine; its position is pc, and it yields to other    *)
(* handlers between any two operations on the shared directory.            *)
(* Strings are TLA+ strings; a body, a path and a sidecar document are     *)
(* strings of one-character bytes.                                         *)
(***************************************************************************)
EXTENDS Integers, Sequences, FiniteSets, TLC

(***************************************************************************)
(* Bounds of the model.                                                    *)
(***************************************************************************)
\* requests accepted in one behaviour, each served by its own handler
\* goroutine; any number of them may run at the same time
MaxRequests == 2
\* instants time.Now() may return, in halves of a second: 0..MaxDate
MaxDate == 2
\* bytes one Read of the upstream body may return (the pooled buffer)
ChunkMax == 2
\* requests accepted in one behaviour that asks for one identifier again and
\* again
MaxRepeat == 3
\* requests accepted in one behaviour in which clients keep asking for a tag
\* while earlier requests for it are still in progress
MaxLate == 4

Slots ==
    1..(IF MaxLate > MaxRepeat /\ MaxLate > MaxRequests THEN MaxLate
        ELSE IF MaxRepeat > MaxRequests THEN MaxRepeat ELSE MaxRequests)
Dates == 0..MaxDate

(***************************************************************************)
(* Strings.                                                                *)
(***************************************************************************)
HasPrefix(s, p) == Len(s) >= Len(p) /\ SubSeq(s, 1, Len(p)) = p

\* strings.ToLower, on the alphabet the model's headers use
LowerByte(c) ==
    CASE c = "A" -> "a" [] c = "B" -> "b" [] c = "C" -> "c"
      [] c = "D" -> "d" [] c = "E" -> "e" [] c = "F" -> "f"
      [] c = "S" -> "s" [] c = "H" -> "h"
      [] OTHER -> c

RECURSIVE ToLower(_)
ToLower(s) ==
    IF s = "" THEN "" ELSE LowerByte(SubSeq(s, 1, 1)) \o ToLower(Tail(s))

\* strings.Replace(s, old, "", 1): drop the first occurrence of old
RECURSIVE ReplaceFirst(_, _)
ReplaceFirst(s, old) ==
    IF Len(s) < Len(old) THEN s
    ELSE IF HasPrefix(s, old) THEN SubSeq(s, Len(old) + 1, Len(s))
    ELSE SubSeq(s, 1, 1) \o ReplaceFirst(Tail(s), old)

\* strings.ReplaceAll(s, "/", "")
RECURSIVE DropSlashes(_)
DropSlashes(s) ==
    IF s = "" THEN ""
    ELSE IF SubSeq(s, 1, 1) = "/" THEN DropSlashes(Tail(s))
    ELSE SubSeq(s, 1, 1) \o DropSlashes(Tail(s))

(***************************************************************************)
(* SHA-256, hex encoded.  The hash is modelled as an injective function of *)
(* the bytes hashed (no collisions): a fixed two-digit head followed by    *)
(* the two hex digits of every byte.                                       *)
(***************************************************************************)
HexByte(c) ==
    CASE c = "a" -> "61" [] c = "b" -> "62" [] c = "c" -> "63"
      [] c = "d" -> "64" [] c = "x" -> "78"
      [] OTHER -> "3f"

RECURSIVE HexEncode(_)
HexEncode(s) ==
    IF s = "" THEN "" ELSE HexByte(SubSeq(s, 1, 1)) \o HexEncode(Tail(s))

Sha256Hex(bytes) == "e3" \o HexEncode(bytes)

(***************************************************************************)
(* Object identifiers and their storage key.                               *)
(***************************************************************************)
ObjectTypeManifest == "manifest"
ObjectTypeBlob == "blob"
cacheManifestSuffix == ".json"

Obj(reg, repo, ref, type) ==
    [Registry |-> reg, Repository |-> repo, Ref |-> ref, Type |-> type]

\* faulty variant: blobs are keyed by registry and repository like manifests
ObjectToCacheNameByRegistry(object) ==
    object.Registry \o "/" \o object.Repository \o "/" \o object.Ref

\* faulty variant: the shape of the ref decides, not the type
ObjectToCacheNameByShape(object) ==
    LET id == DropSlashes(ReplaceFirst(object.Ref, "sha256:"))
    IN  IF HasPrefix(object.Ref, "sha256:")
        THEN "blobs/" \o SubSeq(id, 1, 2) \o "/" \o id
        ELSE object.Registry \o "/" \o object.Repository \o "/" \o object.Ref

ObjectToCacheName(object) ==
    LET id == DropSlashes(ReplaceFirst(object.Ref, "sha256:"))
    IN  IF object.Type = ObjectTypeBlob
        THEN "blobs/" \o SubSeq(id, 1, 2) \o "/" \o id
        ELSE object.Registry \o "/" \o object.Repository \o "/" \o object.Ref

\* filepath.Join(cacheDirectory, name) with the cache directory as root
PayloadPath(object) == ObjectToCacheName(object)
SidecarPath(object) == PayloadPath(object) \o cacheManifestSuffix
(***************************************************************************)
(* The sidecar document.  json.Marshal writes the identifier, the two      *)
(* header values and the commit instant; time.Time is written in           *)
(* RFC3339Nano, which drops the trailing zeros of the fraction, so the     *)
(* length of the document depends on the instant.  json.Unmarshal accepts  *)
(* a document only when it is complete.                                    *)
(***************************************************************************)
FormatTime(t) ==
    IF t % 2 = 0 THEN ToString(t \div 2)
    ELSE ToString(t \div 2) \o ".5"

CacheManifest(object, contentType, dockerContentDigest, cacheDate) ==
    [Registry |-> object.Registry, Repository |-> object.Repository,
     Ref |-> object.Ref, Type |-> object.Type,
     ContentType |-> contentType,
     DockerContentDigest |-> dockerContentDigest,
     CacheDate |-> cacheDate]

Marshal(m) ==
    "{" \o m.Registry \o "," \o m.Repository \o "," \o m.Ref \o "," \o m.Type
        \o "," \o m.ContentType \o "," \o m.DockerContentDigest
        \o "," \o FormatTime(m.CacheDate) \o "}"

(***************************************************************************)
(* The upstream registries: what each answers to GET for an identifier.    *)
(* cl tells whether the answer carries Content-Length (it is absent from   *)
(* a chunked answer).                                                      *)
(***************************************************************************)
Response(status, ct, dcd, cl, body) ==
    [status |-> status, ct |-> ct, dcd |-> dcd, cl |-> cl, body |-> body]

\* a manifest by tag; its digest header is written in upper-case hex
ManV1 == Obj("r.io", "app", "v1", ObjectTypeManifest)
\* a manifest whose body was altered in flight: it does not hash to the header
ManV2 == Obj("r.io", "app", "v2", ObjectTypeManifest)
\* a manifest by tag whose answer has no digest header: nothing verifies it
ManV3 == Obj("r.io", "app", "v3", ObjectTypeManifest)
\* a blob; the answer has neither a digest header nor Content-Length
BlobCd == Obj("r.io", "app", "sha256:" \o Sha256Hex("cd"), ObjectTypeBlob)
\* the blob of zero bytes
BlobEmpty == Obj("r.io", "app", "sha256:" \o Sha256Hex(""), ObjectTypeBlob)

\* a manifest by a tag the skip-tags regex matches
ManLatest == Obj("r.io", "app", "latest", ObjectTypeManifest)
\* a manifest and a blob of a private registry; the blob is BlobCd's
ManPriv == Obj("priv.io", "app", "v1", ObjectTypeManifest)
BlobPriv == Obj("priv.io", "app", "sha256:" \o Sha256Hex("cd"), ObjectTypeBlob)
\* a manifest the registry does not have
ManGone == Obj("r.io", "app", "v9", ObjectTypeManifest)
\* manifests of registries that answer 401 to a request they do not accept
ManBasic == Obj("basic.io", "app", "v1", ObjectTypeManifest)
ManBearer == Obj("bearer.io", "app", "v1", ObjectTypeManifest)
ManNoCreds == Obj("nocreds.io", "app", "v1", ObjectTypeManifest)
ManOdd == Obj("odd.io", "app", "v1", ObjectTypeManifest)
\* objects of Docker Hub, which clients name docker.io: a manifest by tag, a
\* manifest by digest and the blob with the same digest
ManHub == Obj("registry-1.docker.io", "app", "v1", ObjectTypeManifest)
ManHubDigest ==
    Obj("registry-1.docker.io", "app", "sha256:" \o Sha256Hex("ab"),
        ObjectTypeManifest)
BlobHub ==
    Obj("registry-1.docker.io", "app", "sha256:" \o Sha256Hex("ab"),
        ObjectTypeBlob)

\* the blob of BlobHub's digest as a mirror serves it: another blob, with
\* the digest header of what it sends
BlobSwapped ==
    Obj("m.io", "app", "sha256:" \o Sha256Hex("ab"), ObjectTypeBlob)

\* a manifest by a tag that ends in the suffix of the sidecars
ManV1Json == Obj("r.io", "app", "v1.json", ObjectTypeManifest)
\* a manifest by a tag that is moved to another image while it is served
ManMoving == Obj("t.io", "app", "edge", ObjectTypeManifest)

\* the identifiers one behaviour draws its requests from
Scenarios ==
    {"cache", "policy", "auth", "repeat", "router", "config", "digest"}

ObjectsOf(s) ==
    CASE s = "cache" -> {ManV1, ManV2, ManV3, BlobCd, BlobEmpty}
      [] s = "policy" -> {ManLatest, ManPriv, BlobPriv, BlobCd, ManGone}
      [] s = "auth" -> {ManBasic, ManBearer, ManNoCreds, ManOdd}
      [] s = "repeat" -> {ManV1, BlobEmpty}
      [] s = "router" -> {ManHub, ManHubDigest, BlobHub}
      [] s = "config" -> {ManV1, ManLatest, ManPriv, BlobPriv}
      [] s = "digest" -> {BlobSwapped, BlobHub}
      [] s = "collide" -> {ManV1, ManV1Json}
      [] s = "moving" -> {ManMoving}

\* how many requests a behaviour of the scenario accepts
RequestsOf(s) ==
    CASE s \in {"repeat", "collide"} -> MaxRepeat
      [] s = "moving" -> MaxLate
      [] s = "config" -> MaxRequests - 1
      [] OTHER -> MaxRequests

\* how many of them may be in progress at the same time: the client that
\* repeats a request waits for the answer first
ConcurrencyOf(s) ==
    IF s \in {"repeat", "router", "digest", "collide"} THEN 1
    ELSE MaxRequests

\* isHead of the requests of the scenario
MethodsOf(s) ==
    IF s \in {"auth", "config", "router", "digest", "collide", "moving"}
    THEN {FALSE} ELSE BOOLEAN

\* the methods of the requests of the scenario
HttpMethodsOf(s) ==
    {IF head THEN "HEAD" ELSE "GET" : head \in MethodsOf(s)}
        \cup (IF s = "router" THEN {"PUT"} ELSE {})

\* the ns query parameter a client may send with a request for the object;
\* "" when it sends none
NamespacesOf(s, object) ==
    IF s = "router" THEN {"", "docker.io", object.Registry}
    ELSE {object.Registry}

\* a request as the router receives it: the method, the route that matched
\* (manifests or blobs) with its variables, and the ns query parameter
ClientRequest(method, kind, repo, ref, ns) ==
    [method |-> method, kind |-> kind, repo |-> repo, ref |-> ref, ns |-> ns]

ClientRequestsOf(s) ==
    UNION { { ClientRequest(m, o.Type, o.Repository, o.Ref, ns) :
                m \in HttpMethodsOf(s), ns \in NamespacesOf(s, o) } :
            o \in ObjectsOf(s) }

Objects == UNION { ObjectsOf(s) : s \in Scenarios }

\* the WWW-Authenticate header of the 401 of a registry; "" when the
\* registry accepts every request
Challenge(registry) ==
    CASE registry = "basic.io" -> "Basic realm=\"r\""
      [] registry = "bearer.io" -> "Bearer realm=\"https://auth.io/token\",service=\"s\""
      [] registry = "nocreds.io" -> "Bearer realm=\"https://auth.io/token\",service=\"s\""
      [] registry = "odd.io" -> "Negotiate"
      [] OTHER -> ""

Unauthorized == Response(401, "j", "", TRUE, "u")

Upstream(object) ==
    CASE object = ManV1 -> Response(200, "m", "sha256:E36162", TRUE, "ab")
      [] object = ManV2 ->
            Response(200, "m", "sha256:" \o Sha256Hex("ab"), TRUE, "ax")
      [] object = ManV3 -> Response(200, "m", "", FALSE, "ab")
      [] object = BlobCd -> Response(200, "o", "", FALSE, "cd")
      [] object = BlobEmpty -> Response(200, "o", "", TRUE, "")
      [] object = ManLatest -> Response(200, "m", "", TRUE, "a")
      [] object = ManPriv -> Response(200, "m", "", TRUE, "a")
      [] object = BlobPriv -> Response(200, "o", "", FALSE, "cd")
      [] object \in {ManBasic, ManBearer, ManNoCreds, ManOdd} ->
            Response(200, "m", "", TRUE, "a")
      [] object = ManHub -> Response(200, "m", "", TRUE, "ab")
      [] object = ManHubDigest -> Response(200, "m", "", TRUE, "ab")
      [] object = BlobHub -> Response(200, "o", BlobHub.Ref, TRUE, "ab")
      [] object = ManV1Json -> Response(200, "m", "", TRUE, "cd")
      [] object = ManMoving ->
            Response(200, "m", "sha256:" \o Sha256Hex("ab"), TRUE, "ab")
      [] object = BlobSwapped ->
            Response(200, "o", "sha256:" \o Sha256Hex("cd"), TRUE, "cd")
      [] OTHER -> Response(404, "t", "", TRUE, "x")

\* what the registry answers for ManMoving once the tag has moved
UpstreamMoved ==
    Response(200, "m", "sha256:" \o Sha256Hex("cd"), TRUE, "cd")

\* every sidecar a Commit of the model can write
Manifests ==
    { CacheManifest(o, Upstream(o).ct, ToLower(Upstream(o).dcd), d) :
        o \in Objects \cup {ManV1Json, ManMoving}, d \in Dates }
    \cup { CacheManifest(ManMoving, UpstreamMoved.ct,
                         ToLower(UpstreamMoved.dcd), d) : d \in Dates }

ParseError == [error |-> "json"]

\* the complete documents, each with the sidecar it decodes to
Documents == { Marshal(m) : m \in Manifests }
Decoded == [doc \in Documents |-> CHOOSE m \in Manifests : Marshal(m) = doc]

\* faulty variant: the error of json.Unmarshal is dropped
UnmarshalIgnoringError(doc) ==
    IF doc \in Documents THEN Decoded[doc]
    ELSE CacheManifest(Obj("", "", "", ""), "", "", 0)

Unmarshal(doc) == IF doc \in Documents THEN Decoded[doc] ELSE ParseError
(***************************************************************************)
(* Configuration of the service (main.go flags).                           *)
(***************************************************************************)
\* the flags most behaviours run with: --private-registry priv.io, the rest
\* at its default
CacheManifests == TRUE
PrivateRegistries == {"priv.io"}
SkipTags == "latest"
\* main never sets SkipImages: the map is nil and holds no repository
SkipImages == {}

\* the CacheService main builds from the flags
CacheService(cacheManifests, skipTags, privateRegistries) ==
    [CacheManifests |-> cacheManifests, SkipTags |-> skipTags,
     PrivateRegistries |-> privateRegistries, SkipImages |-> SkipImages]

DefaultService == CacheService(CacheManifests, SkipTags, PrivateRegistries)

\* the services the flags can build: --cache-manifests on or off,
\* --skip-tags "latest" or "" (the empty expression, which matches every
\* ref), --private-registry given or not
Services ==
    { CacheService(m, t, p) :
        m \in BOOLEAN, t \in {SkipTags, ""}, p \in {PrivateRegistries, {}} }

ServicesOf(s) == IF s = "config" THEN Services ELSE {DefaultService}

RECURSIVE Contains(_, _)
Contains(s, sub) ==
    IF Len(s) < Len(sub) THEN FALSE
    ELSE HasPrefix(s, sub) \/ Contains(Tail(s), sub)

\* Regexp.MatchString for an expression without operators, unanchored: the
\* ref contains it
SkipTagsMatch(skipTags, ref) == Contains(ref, skipTags)

\* faulty variant: the private-registry set is not consulted
getSkipReasonNoPrivate(s, object) ==
    IF object.Type # ObjectTypeManifest THEN ""
    ELSE IF object.Repository \in s.SkipImages THEN "image on ignore list"
    ELSE IF SkipTagsMatch(s.SkipTags, object.Ref) THEN "tag match skip regex"
    ELSE IF ~s.CacheManifests THEN "manifests cache disabled"
    ELSE ""

\* the reason assigned last stands: the four tests run in the order
\* manifests disabled, skip-tags, private registry, skip-images
getSkipReason(s, object) ==
    IF object.Type # ObjectTypeManifest THEN ""
    ELSE IF object.Repository \in s.SkipImages THEN "image on ignore list"
    ELSE IF object.Registry \in s.PrivateRegistries THEN "private registry"
    ELSE IF SkipTagsMatch(s.SkipTags, object.Ref) THEN "tag match skip regex"
    ELSE IF ~s.CacheManifests THEN "manifests cache disabled"
    ELSE ""

(***************************************************************************)
(* Request headers, credentials and the 401 challenge.                     *)
(***************************************************************************)
\* the request headers the model follows
Headers(authorization, acceptEncoding, range) ==
    [Authorization |-> authorization, AcceptEncoding |-> acceptEncoding,
     Range |-> range]

\* the headers a client may send, by scenario
ClientHeaders(s) ==
    IF s = "auth"
    THEN {Headers("", "gzip", "bytes=0-0"), Headers("Bearer c", "gzip", "bytes=0-0")}
    ELSE {Headers("", "gzip", "bytes=0-0")}

\* --creds-file: registry host -> credentials
DefaultCreds ==
    [host \in {"basic.io", "bearer.io", "odd.io"} |->
        [Username |-> "u", Password |-> "p"]]

\* base64.StdEncoding.EncodeToString, kept injective
Base64(str) == "b64(" \o str \o ")"

BasicAuth(creds) == "Basic " \o Base64(creds.Username \o ":" \o creds.Password)

\* position of the first occurrence of the one-byte string c in s, or 0
Index(s, c) ==
    IF \E i \in 1..Len(s) : SubSeq(s, i, i) = c
    THEN CHOOSE i \in 1..Len(s) :
            /\ SubSeq(s, i, i) = c
            /\ \A j \in 1..(i - 1) : SubSeq(s, j, j) # c
    ELSE 0

\* the positions of the one-byte string c in s
Positions(s, c) == {i \in 1..Len(s) : SubSeq(s, i, i) = c}

\* the k-th smallest element of the set S of numbers
Nth(S, k) == CHOOSE i \in S : Cardinality({j \in S : j < i}) = k - 1

\* strings.Split(s, sep) for a one-byte sep
Split(s, sep) ==
    [k \in 1..(Cardinality(Positions(s, sep)) + 1) |->
        SubSeq(s,
               IF k = 1 THEN 1 ELSE Nth(Positions(s, sep), k - 1) + 1,
               IF k = Cardinality(Positions(s, sep)) + 1 THEN Len(s)
               ELSE Nth(Positions(s, sep), k) - 1)]

\* strings.Trim(s, cut) for a one-byte cut
Trim(s, cut) ==
    IF \A i \in 1..Len(s) : SubSeq(s, i, i) = cut THEN ""
    ELSE SubSeq(s,
                CHOOSE i \in 1..Len(s) :
                    /\ SubSeq(s, i, i) # cut
                    /\ \A j \in 1..(i - 1) : SubSeq(s, j, j) = cut,
                CHOOSE i \in 1..Len(s) :
                    /\ SubSeq(s, i, i) # cut
                    /\ \A j \in (i + 1)..Len(s) : SubSeq(s, j, j) = cut)

\* strings.SplitN(strings.TrimSpace(param), "=", 2)
SplitParam(param) ==
    LET p == Trim(param, " ")
        i == Index(p, "=")
    IN  IF i = 0 THEN <<p>>
        ELSE <<SubSeq(p, 1, i - 1), SubSeq(p, i + 1, Len(p))>>

\* params of reqWithCreds: key -> unquoted value of the Bearer challenge;
\* of two parameters of the same key the later one stays
ChallengeParams(realm) ==
    LET parts == Split(SubSeq(realm, Len("Bearer") + 1, Len(realm)), ",")
        good == {i \in 1..Len(parts) : Len(SplitParam(parts[i])) = 2}
        keys == {SplitParam(parts[i])[1] : i \in good}
        last(k) == CHOOSE i \in good :
                      /\ SplitParam(parts[i])[1] = k
                      /\ \A j \in good : SplitParam(parts[j])[1] = k => j <= i
    IN  [k \in keys |-> Trim(SplitParam(parts[last(k)])[2], "\"")]

\* tokenUrl: the realm, with every parameter of the challenge as query (the
\* order of the query parameters is that of a Go map, hence a set here)
TokenUrl(realm) ==
    LET params == ChallengeParams(realm)
    IN  [base |-> IF "realm" \in DOMAIN params THEN params["realm"] ELSE "",
         query |-> params]

\* the challenges of the registries, each with its token URL
Challenges == {Challenge(o.Registry) : o \in Objects}
TokenUrls == [realm \in Challenges |-> TokenUrl(realm)]

\* bodies the token endpoint may answer with
TokenDocs == {"{\"token\":\"t\"}", "{\"access_token\":\"t\"}", "{\"token\":\"\"}"}

\* data["token"] after json.Unmarshal(body, &data)
ParseToken(doc) ==
    LET open == "{\"token\":\""
        close == "\"}"
    IN  IF /\ HasPrefix(doc, open)
           /\ Len(doc) >= Len(open) + Len(close)
           /\ SubSeq(doc, Len(doc) - Len(close) + 1, Len(doc)) = close
        THEN SubSeq(doc, Len(open) + 1, Len(doc) - Len(close))
        ELSE ""

(***************************************************************************)
(* State.                                                                  *)
(***************************************************************************)
VARIABLES
    fs,        \* the cache directory: path -> content of the file
    req,       \* per handler: its position and its locals
    origin,    \* per payload path: the fetch whose temporary file was renamed there
    hits, misses, skips,  \* the three counters containerd_cache_total
    clock,     \* the latest instant time.Now() returned
    scenario,  \* which identifiers the clients of this behaviour ask for
    service    \* the CacheService: the flags the process was started with

vars == <<fs, req, origin, hits, misses, skips, clock, scenario, service>>

NoObject == Obj("", "", "", "")
NoClientRequest == ClientRequest("", "", "", "", "")
NoResponse == Response(0, "", "", FALSE, "")
NoManifest == [none |-> TRUE]
NoSight == [payload |-> FALSE, sidecar |-> FALSE, present |-> FALSE]
NoHeaders == Headers("", "", "")

IdleRequest ==
    [pc |-> "idle",
     q |-> NoClientRequest,  \* the request as the router received it
     engine |-> FALSE,     \* the router called GetObject
     proxiedFor |-> "",    \* the response header X-Proxied-For
     obj |-> NoObject, isHead |-> FALSE,
     client |-> NoHeaders, \* the headers the client sent
     hdr |-> NoHeaders,    \* headers: the header set handed to reqWithCreds
     sent |-> << >>,       \* the upstream requests made, in order
     skip |-> "",          \* skipCacheReason
     lookup |-> "",        \* what GetCache returned: "hit", "miss", "err"
     writer |-> FALSE,     \* GetCache returned a CacheWriter
     size |-> 0,           \* cacheStat.Size()
     meta |-> NoManifest,  \* the sidecar read by GetCache
     status |-> 0,         \* status line sent to the client
     cl |-> "", ct |-> "", dcd |-> "",   \* response headers sent to the client
     out |-> "",           \* body bytes the client received
     resp |-> NoResponse,  \* upstreamResp
     pos |-> 0,            \* bytes of the upstream body read so far
     sha |-> "",           \* bytes written to the hasher
     file |-> "",          \* FileWriter.file: name of the temporary file
     date |-> 0,           \* time.Now() taken by Close
     nUp |-> 0,            \* upstream requests made
     outcome |-> "",       \* the counter incremented: "hit", "miss", "skip"
     ioErr |-> FALSE,      \* a read or write error happened while streaming
     mismatch |-> FALSE,   \* the digest check failed
     published |-> FALSE,  \* Close renamed the temporary file into place
     closeErr |-> FALSE,   \* Close returned an error
     sidecar |-> "",       \* how far Close got with the sidecar:
                           \* "created", "partial", "complete"
     fault |-> FALSE,      \* GetCache met an I/O error of the file system
     upErr |-> FALSE,      \* reqWithCreds returned an error
     first |-> 0,          \* status of the first upstream answer, 0 for none
     seen |-> NoSight,     \* the directory when GetCache returned
     startPresent |-> FALSE,  \* the object was cached when the request began
     hitBefore |-> FALSE]  \* a lookup of the same key had returned a hit
                           \* when the request began

\* an object a run with another --skip-tags left under the key of ManLatest
StaleLatest ==
    [fs |-> (PayloadPath(ManLatest) :> "z") @@
            (SidecarPath(ManLatest) :>
                Marshal(CacheManifest(ManLatest, "m", "", 0))),
     origin |-> (PayloadPath(ManLatest) :>
                    [dcd |-> "", body |-> "z", read |-> 1, ioErr |-> FALSE])]

\* a manifest of priv.io cached by a run without --private-registry priv.io
StalePriv ==
    [fs |-> (PayloadPath(ManPriv) :> "z") @@
            (SidecarPath(ManPriv) :>
                Marshal(CacheManifest(ManPriv, "m", "", 0))),
     origin |-> (PayloadPath(ManPriv) :>
                    [dcd |-> "", body |-> "z", read |-> 1, ioErr |-> FALSE])]

StaleDir ==
    [fs |-> StaleLatest.fs @@ StalePriv.fs,
     origin |-> StaleLatest.origin @@ StalePriv.origin]

EmptyDir == [fs |-> << >>, origin |-> << >>]

\* the cache directory the service may start with
InitialDirs(s) == IF s = "policy" THEN {EmptyDir, StaleDir} ELSE {EmptyDir}

Init ==
    /\ scenario \in Scenarios
    /\ service \in ServicesOf(scenario)
    /\ \E d \in InitialDirs(scenario) : fs = d.fs /\ origin = d.origin
    /\ req = [r \in Slots |-> IdleRequest]
    /\ hits = 0
    /\ misses = 0
    /\ skips = 0
    /\ clock = 0

\* the service with clients that ask for identifiers whose names collide in
\* the directory, or for a tag that moves
InitWide ==
    /\ scenario \in {"collide", "moving"}
    /\ service = DefaultService
    /\ fs = EmptyDir.fs /\ origin = EmptyDir.origin
    /\ req = [r \in Slots |-> IdleRequest]
    /\ hits = 0
    /\ misses = 0
    /\ skips = 0
    /\ clock = 0

(***************************************************************************)
(* The directory.                                                          *)
(***************************************************************************)
Exists(dir, path) == path \in DOMAIN dir

WriteFile(dir, path, content) ==
    [p \in DOMAIN dir \cup {path} |-> IF p = path THEN content ELSE dir[p]]

Remove(dir, path) == [p \in DOMAIN dir \ {path} |-> dir[p]]

\* os.Rename: the file at from replaces whatever is at to, in one step
Rename(dir, from, to) == Remove(WriteFile(dir, to, dir[from]), from)

\* a Write of the first n bytes of data at offset 0 of a file holding old
Overlay(old, data, n) == SubSeq(data, 1, n) \o SubSeq(old, n + 1, Len(old))

\* faulty variant: the writer writes to the final path of the payload
TempNameInPlace(r, object) == PayloadPath(object)

\* os.CreateTemp(cacheDirectory, ref): a name no other writer has
TempName(r, object) == object.Ref \o "." \o ToString(r)

\* the presence rule: payload and sidecar exist and the sidecar is a
\* complete document
Present(dir, object) ==
    /\ Exists(dir, PayloadPath(object))
    /\ Exists(dir, SidecarPath(object))
    /\ dir[SidecarPath(object)] \in Documents

\* the directory as GetCache leaves it behind, for the record
Sight(dir, object) ==
    [payload |-> Exists(dir, PayloadPath(object)),
     sidecar |-> Exists(dir, SidecarPath(object)),
     present |-> Present(dir, object)]
(***************************************************************************)
(* One step of handler r: its locals become rec, the directory becomes     *)
(* dir.  A handler that has returned keeps what the client saw and what    *)
(* the request did; the locals it used on the way are gone.                *)
(***************************************************************************)
Returned(rec) ==
    [rec EXCEPT !.pc = "done", !.size = 0, !.meta = NoManifest,
                !.resp = NoResponse, !.pos = 0, !.sha = "", !.file = "",
                !.date = 0]

Step(r, rec, dir) ==
    /\ req' = [req EXCEPT ![r] = IF rec.pc = "done" THEN Returned(rec) ELSE rec]
    /\ fs' = dir

\* faulty variant: Cleanup also removes the payload of the object
CleanupPayload(dir, rec) ==
    Remove(IF rec.file # "" /\ Exists(dir, rec.file)
           THEN Remove(dir, rec.file) ELSE dir,
           PayloadPath(rec.obj))

\* faulty variant: Cleanup leaves the temporary file behind
CleanupNothing(dir, rec) == dir

\* faulty variant: Cleanup removes every temporary file made for the
\* reference, those of other writers included
CleanupEveryTemp(dir, rec) ==
    [p \in {q \in DOMAIN dir : ~HasPrefix(q, rec.obj.Ref \o ".")} |-> dir[p]]

\* FileWriter.Cleanup, deferred by GetObject on the miss path
Cleanup(dir, rec) ==
    IF rec.file # "" /\ Exists(dir, rec.file) THEN Remove(dir, rec.file) ELSE dir

\* faulty variant: Cleanup is called on the paths that return before Close,
\* and not after a Close that failed
ReturnCleanupBeforeClose(r, rec, dir) ==
    Step(r, [rec EXCEPT !.pc = "done"],
         IF rec.outcome = "miss" /\ ~rec.closeErr THEN Cleanup(dir, rec)
         ELSE dir)

\* the handler returns: the deferred Cleanup runs when it was registered
Return(r, rec, dir) ==
    Step(r, [rec EXCEPT !.pc = "done"],
         IF rec.outcome = "miss" THEN Cleanup(dir, rec) ELSE dir)

(***************************************************************************)
(* The router: the handlers of the manifests and the blobs route.          *)
(***************************************************************************)
\* faulty variant: no alias is replaced
registryOverridesNone(registry) == registry

registryOverrides(registry) ==
    IF registry = "docker.io" THEN "registry-1.docker.io" ELSE registry

\* what the handler writes when the request has no ns
NoNamespace(repo) ==
    "No ns query string given (are you using containerd?): "
        \o "I don't know what registry to ask for " \o repo

\* what a route handler does with a request: it answers 400 itself, or it
\* calls the engine with an identifier and isHead
Answer(status, body) ==
    [engine |-> FALSE, status |-> status, body |-> body,
     object |-> NoObject, isHead |-> FALSE]
Dispatch(object, isHead) ==
    [engine |-> TRUE, status |-> 0, body |-> "",
     object |-> object, isHead |-> isHead]

\* faulty variant: a request without ns is taken to be for Docker Hub
NewRouterDefaultRegistry(q) ==
    Dispatch(Obj(registryOverrides(IF q.ns = "" THEN "docker.io" ELSE q.ns),
                 q.repo, q.ref, q.kind),
             q.method = "HEAD")

\* the two handlers differ in the type of the identifier only; a method
\* that is neither HEAD nor GET falls through the empty branch and is
\* dispatched with isHead false
NewRouter(q) ==
    IF q.ns = "" THEN Answer(400, NoNamespace(q.repo))
    ELSE Dispatch(Obj(registryOverrides(q.ns), q.repo, q.ref, q.kind),
                  q.method = "HEAD")

(***************************************************************************)
(* GetObject, up to the cache lookup.                                      *)
(***************************************************************************)
Start(r) ==
    /\ req[r].pc = "idle"
    /\ r > 1 => req[r - 1].pc # "idle"
    /\ r <= RequestsOf(scenario)
    /\ Cardinality({s \in Slots : req[s].pc \notin {"idle", "done"}})
          < ConcurrencyOf(scenario)
    /\ \E q \in ClientRequestsOf(scenario), h \in ClientHeaders(scenario) :
       \E call \in {NewRouter(q)} :
          IF ~call.engine
          THEN Step(r, [IdleRequest EXCEPT
                           !.q = q, !.client = h, !.status = call.status,
                           !.out = call.body, !.pc = "done"], fs)
          ELSE \E reason \in {getSkipReason(service, call.object)} :
               \* the clients that come late ask for what the cache holds
               /\ (scenario = "moving" /\ r > MaxRequests)
                     => Present(fs, call.object)
               /\ \E rec \in {[IdleRequest EXCEPT
                                   !.q = q, !.engine = TRUE,
                                   !.proxiedFor = call.object.Registry,
                                   !.obj = call.object, !.isHead = call.isHead,
                                   !.skip = reason,
                                   !.client = h, !.hdr = h,
                                   !.startPresent = Present(fs, call.object),
                                   !.hitBefore =
                                       \E p \in Slots :
                                           /\ req[p].lookup = "hit"
                                           /\ ObjectToCacheName(req[p].obj)
                                                = ObjectToCacheName(call.object),
                                   !.pc = IF reason = "" THEN "stat1"
                                          ELSE "fetch"]} :
                        Step(r, rec, fs)
    /\ UNCHANGED <<origin, hits, misses, skips, clock, scenario, service>>

\* faulty variant: the error of GetCache is logged and the request goes
\* upstream
LookupErrorIgnored(rec) ==
    [rec EXCEPT !.lookup = "err", !.pc = "fetch"]

\* GetCache returned an error: 500
LookupError(rec) ==
    [rec EXCEPT !.lookup = "err", !.status = 500, !.pc = "done"]

\* faulty variant: an object of which only one file exists is an error of
\* the lookup
LookupMissUnlessHalf(rec) ==
    IF rec.seen.payload # rec.seen.sidecar
    THEN [rec EXCEPT !.lookup = "err", !.status = 500, !.pc = "done"]
    ELSE [rec EXCEPT !.lookup = "miss", !.writer = TRUE,
                     !.hdr = [@ EXCEPT !.AcceptEncoding = "", !.Range = ""],
                     !.pc = "fetch"]

\* faulty variant: Range stays in the header set
LookupMissKeepsRange(rec) ==
    [rec EXCEPT !.lookup = "miss", !.writer = TRUE,
                !.hdr = [@ EXCEPT !.AcceptEncoding = ""],
                !.pc = "fetch"]

\* GetCache returned no reader: the request goes upstream, with the writer
\* and without Accept-Encoding and Range
LookupMiss(rec) ==
    [rec EXCEPT !.lookup = "miss", !.writer = TRUE,
                !.hdr = [@ EXCEPT !.AcceptEncoding = "", !.Range = ""],
                !.pc = "fetch"]

\* os.Stat(cacheFilePath)
StatPayload(r) ==
    /\ req[r].pc = "stat1"
    /\ \E fault \in BOOLEAN :
       \E rec \in {[req[r] EXCEPT !.fault = fault,
                                   !.seen = Sight(fs, req[r].obj)]} :
       \E path \in {PayloadPath(rec.obj)} :
             IF fault THEN Step(r, LookupError(rec), fs)
             ELSE IF ~Exists(fs, path) THEN Step(r, LookupMiss(rec), fs)
             ELSE Step(r, [rec EXCEPT !.size = Len(fs[path]),
                                      !.fault = FALSE, !.seen = NoSight,
                                      !.pc = "stat2"], fs)
    /\ UNCHANGED <<origin, hits, misses, skips, clock, scenario, service>>

\* os.Stat(cacheFilePathManifest)
StatSidecar(r) ==
    /\ req[r].pc = "stat2"
    /\ \E fault \in BOOLEAN :
       \E rec \in {[req[r] EXCEPT !.fault = fault,
                                   !.seen = Sight(fs, req[r].obj)]} :
       \E path \in {SidecarPath(rec.obj)} :
             IF fault THEN Step(r, LookupError(rec), fs)
             ELSE IF ~Exists(fs, path) THEN Step(r, LookupMiss(rec), fs)
             ELSE Step(r, [rec EXCEPT !.fault = FALSE, !.seen = NoSight,
                                      !.pc = "readman"], fs)
    /\ UNCHANGED <<origin, hits, misses, skips, clock, scenario, service>>

\* faulty variant: Content-Length is taken from the size of the sidecar
ServeHitSidecarSize(rec, manifest) ==
    [rec EXCEPT !.lookup = "hit", !.writer = TRUE, !.meta = manifest,
                !.outcome = "hit", !.status = 200,
                !.cl = ToString(Len(Marshal(manifest))),
                !.ct = manifest.ContentType,
                !.dcd = manifest.DockerContentDigest,
                !.pc = IF rec.isHead THEN "done" ELSE "hitbody"]

\* faulty variant: a HEAD hit carries no Content-Length
ServeHitHeadNoLength(rec, manifest) ==
    [rec EXCEPT !.lookup = "hit", !.writer = TRUE, !.meta = manifest,
                !.outcome = "hit", !.status = 200,
                !.cl = IF rec.isHead THEN "" ELSE ToString(rec.size),
                !.ct = manifest.ContentType,
                !.dcd = manifest.DockerContentDigest,
                !.pc = IF rec.isHead THEN "done" ELSE "hitbody"]

\* what the hit path sets before the body: counter and headers
ServeHit(rec, manifest) ==
    [rec EXCEPT !.lookup = "hit", !.writer = TRUE, !.meta = manifest,
                !.outcome = "hit", !.status = 200,
                !.cl = ToString(rec.size),
                !.ct = manifest.ContentType,
                !.dcd = manifest.DockerContentDigest,
                !.pc = IF rec.isHead THEN "done" ELSE "hitbody"]

\* os.ReadFile and json.Unmarshal of the sidecar, then the hit path
ReadManifest(r) ==
    /\ req[r].pc = "readman"
    /\ \E fault \in BOOLEAN :
       \E rec \in {[req[r] EXCEPT !.fault = fault,
                                   !.seen = Sight(fs, req[r].obj)]} :
       \E path \in {SidecarPath(rec.obj)} :
       \E manifest \in {IF Exists(fs, path) THEN Unmarshal(fs[path])
                         ELSE ParseError} :
             IF fault \/ ~Exists(fs, path) \/ manifest = ParseError
             THEN /\ Step(r, LookupError(rec), fs)
                  /\ hits' = hits
             ELSE /\ Step(r, ServeHit(rec, manifest), fs)
                  /\ hits' = hits + 1
    /\ UNCHANGED <<origin, misses, skips, clock, scenario, service>>

\* faulty variant: the writer that came with the hit creates its temporary
\* file
HitBodyOpensWriter(r) ==
    /\ req[r].pc = "hitbody"
    /\ \E rec \in {req[r]} :
       \E path \in {PayloadPath(rec.obj)} :
       \E content \in {IF Exists(fs, path) THEN fs[path] ELSE ""} :
           \E n \in 0..Len(content) :
             Step(r, [rec EXCEPT !.out = SubSeq(content, 1, n),
                                 !.ioErr = n < Len(content) \/ ~Exists(fs, path),
                                 !.pc = "done"],
                  WriteFile(fs, TempName(r, rec.obj), ""))
    /\ UNCHANGED <<origin, hits, misses, skips, clock, scenario, service>>

\* cached.GetReader and readIntoWriters({w}, reader): the open file is
\* streamed to the client, who may stop reading after any number of bytes
HitBody(r) ==
    /\ req[r].pc = "hitbody"
    /\ \E rec \in {req[r]} :
       \E path \in {PayloadPath(rec.obj)} :
       \E content \in {IF Exists(fs, path) THEN fs[path] ELSE ""} :
           \E n \in 0..Len(content) :
             Step(r, [rec EXCEPT !.out = SubSeq(content, 1, n),
                                 !.ioErr = n < Len(content) \/ ~Exists(fs, path),
                                 !.pc = "done"], fs)
    /\ UNCHANGED <<origin, hits, misses, skips, clock, scenario, service>>
(***************************************************************************)
(* The upstream request.                                                   *)
(***************************************************************************)
TransportError == [error |-> "transport"]

TokenError == [error |-> "token not found in response"]

IsError(resp) == "error" \in DOMAIN resp

\* the URL GetObject builds for the identifier
UpstreamUrl(object) ==
    [base |-> "https://" \o object.Registry \o "/v2/" \o object.Repository
                \o (IF object.Type = ObjectTypeManifest
                    THEN "/manifests/" ELSE "/blobs/")
                \o object.Ref,
     query |-> << >>]

\* one request as the upstream side receives it
Sent(to, url, h) ==
    [to |-> to, url |-> url, Authorization |-> h.Authorization,
     AcceptEncoding |-> h.AcceptEncoding, Range |-> h.Range]

\* request(url, "GET", headers) to the registry: no answer at all, 401 from
\* a registry that wants credentials and got none it accepts, or the object
request(object, authorization, fail, accepted) ==
    IF fail THEN TransportError
    ELSE IF Challenge(object.Registry) # "" /\ ~(authorization # "" /\ accepted)
         THEN Unauthorized
    ELSE Upstream(object)

\* the Basic branch: the request again, with the default credentials
BasicRetry(object, hdr, creds, env, sent) ==
    LET h == [hdr EXCEPT !.Authorization = BasicAuth(creds)]
    IN  [resp |-> request(object, h.Authorization, env.fail2, env.accepted),
         hdr |-> h,
         sent |-> Append(sent, Sent("registry", UpstreamUrl(object), h))]

\* faulty variant: a token request that fails is made a second time
BearerRetryTokenTwice(object, hdr, creds, realm, env, sent) ==
    LET ask == Sent("token", TokenUrls[realm], Headers(BasicAuth(creds), "", ""))
        token == ParseToken(env.tokenDoc)
        h == [hdr EXCEPT !.Authorization = "Bearer " \o token]
    IN  IF env.tokenFail
        THEN [resp |-> TransportError, hdr |-> hdr,
              sent |-> Append(Append(sent, ask), ask)]
        ELSE IF token = ""
        THEN [resp |-> TokenError, hdr |-> hdr, sent |-> Append(sent, ask)]
        ELSE [resp |-> request(object, h.Authorization, env.fail2, env.accepted),
              hdr |-> h,
              sent |-> Append(Append(sent, ask),
                              Sent("registry", UpstreamUrl(object), h))]

\* faulty variant: the token is asked for without credentials
BearerRetryAnonymous(object, hdr, creds, realm, env, sent) ==
    LET ask == Sent("token", TokenUrls[realm], NoHeaders)
        token == ParseToken(env.tokenDoc)
        h == [hdr EXCEPT !.Authorization = "Bearer " \o token]
    IN  IF env.tokenFail
        THEN [resp |-> TransportError, hdr |-> hdr, sent |-> Append(sent, ask)]
        ELSE IF token = ""
        THEN [resp |-> TokenError, hdr |-> hdr, sent |-> Append(sent, ask)]
        ELSE [resp |-> request(object, h.Authorization, env.fail2, env.accepted),
              hdr |-> h,
              sent |-> Append(Append(sent, ask),
                              Sent("registry", UpstreamUrl(object), h))]

\* the Bearer branch: a token from the realm, then the request again
BearerRetry(object, hdr, creds, realm, env, sent) ==
    LET ask == Sent("token", TokenUrls[realm], Headers(BasicAuth(creds), "", ""))
        token == ParseToken(env.tokenDoc)
        h == [hdr EXCEPT !.Authorization = "Bearer " \o token]
    IN  IF env.tokenFail
        THEN [resp |-> TransportError, hdr |-> hdr, sent |-> Append(sent, ask)]
        ELSE IF token = ""
        THEN [resp |-> TokenError, hdr |-> hdr, sent |-> Append(sent, ask)]
        ELSE [resp |-> request(object, h.Authorization, env.fail2, env.accepted),
              hdr |-> h,
              sent |-> Append(Append(sent, ask),
                              Sent("registry", UpstreamUrl(object), h))]

\* the first request of reqWithCreds
FirstAnswer(object, hdr, env) ==
    request(object, hdr.Authorization, env.fail1, env.accepted)

FirstStatus(object, hdr, env) ==
    IF IsError(FirstAnswer(object, hdr, env)) THEN 0
    ELSE FirstAnswer(object, hdr, env).status

\* faulty variant: the default credentials replace an Authorization header
\* the client sent
reqWithCredsOverClient(object, hdr, env) ==
    LET first == FirstAnswer(object, hdr, env)
        sent == <<Sent("registry", UpstreamUrl(object), hdr)>>
        realm == Challenge(object.Registry)
    IN  IF IsError(first) THEN [resp |-> first, hdr |-> hdr, sent |-> sent]
        ELSE IF /\ first.status = 401
                /\ object.Registry \in DOMAIN DefaultCreds
        THEN IF HasPrefix(realm, "Basic")
             THEN BasicRetry(object, hdr, DefaultCreds[object.Registry], env, sent)
             ELSE IF HasPrefix(realm, "Bearer")
             THEN BearerRetry(object, hdr, DefaultCreds[object.Registry],
                              realm, env, sent)
             ELSE [resp |-> first, hdr |-> hdr, sent |-> sent]
        ELSE [resp |-> first, hdr |-> hdr, sent |-> sent]

\* faulty variant: a challenge of any other scheme is retried as Basic
reqWithCredsAnyScheme(object, hdr, env) ==
    LET first == FirstAnswer(object, hdr, env)
        sent == <<Sent("registry", UpstreamUrl(object), hdr)>>
        realm == Challenge(object.Registry)
    IN  IF IsError(first) THEN [resp |-> first, hdr |-> hdr, sent |-> sent]
        ELSE IF /\ first.status = 401
                /\ hdr.Authorization = ""
                /\ object.Registry \in DOMAIN DefaultCreds
        THEN IF HasPrefix(realm, "Basic")
             THEN BasicRetry(object, hdr, DefaultCreds[object.Registry], env, sent)
             ELSE IF HasPrefix(realm, "Bearer")
             THEN BearerRetry(object, hdr, DefaultCreds[object.Registry],
                              realm, env, sent)
             ELSE BasicRetry(object, hdr, DefaultCreds[object.Registry], env, sent)
        ELSE [resp |-> first, hdr |-> hdr, sent |-> sent]

\* reqWithCreds: the answer (or the error), the header set as it leaves it,
\* and the requests it made
reqWithCreds(object, hdr, env) ==
    LET first == FirstAnswer(object, hdr, env)
        sent == <<Sent("registry", UpstreamUrl(object), hdr)>>
        realm == Challenge(object.Registry)
    IN  IF IsError(first) THEN [resp |-> first, hdr |-> hdr, sent |-> sent]
        ELSE IF /\ first.status = 401
                /\ hdr.Authorization = ""
                /\ object.Registry \in DOMAIN DefaultCreds
        THEN IF HasPrefix(realm, "Basic")
             THEN BasicRetry(object, hdr, DefaultCreds[object.Registry], env, sent)
             ELSE IF HasPrefix(realm, "Bearer")
             THEN BearerRetry(object, hdr, DefaultCreds[object.Registry],
                              realm, env, sent)
             ELSE [resp |-> first, hdr |-> hdr, sent |-> sent]
        ELSE [resp |-> first, hdr |-> hdr, sent |-> sent]

\* what the network and the registries decide during one reqWithCreds
Environments ==
    [fail1 : BOOLEAN, fail2 : BOOLEAN, accepted : BOOLEAN,
     tokenFail : BOOLEAN, tokenDoc : TokenDocs]

\* the decisions that matter for a registry: one that wants no credentials
\* is asked once
EnvironmentsOf(registry) ==
    IF Challenge(registry) # "" THEN Environments
    ELSE [fail1 : BOOLEAN, fail2 : {FALSE}, accepted : {TRUE},
          tokenFail : {FALSE}, tokenDoc : {""}]

\* faulty variant: the status of the upstream answer is not looked at
ServeUpstreamAnyStatus(rec, resp) ==
    [rec EXCEPT !.resp = resp, !.status = resp.status,
                !.cl = IF resp.cl THEN ToString(Len(resp.body)) ELSE "",
                !.ct = resp.ct, !.dcd = resp.dcd,
                !.outcome = IF rec.skip = "" THEN "miss" ELSE "skip",
                !.pc = "stream"]

\* faulty variant: a request the skip policy applies to is not counted
ServeUpstreamPolicyUncounted(rec, resp) ==
    LET reason == IF resp.status \div 100 # 2
                  THEN "non-2xx upstream response" ELSE rec.skip
    IN  [rec EXCEPT !.resp = resp, !.status = resp.status,
                    !.cl = IF resp.cl THEN ToString(Len(resp.body)) ELSE "",
                    !.ct = resp.ct, !.dcd = resp.dcd,
                    !.skip = reason,
                    !.outcome = IF reason = "" THEN "miss"
                                ELSE IF rec.skip # "" THEN "" ELSE "skip",
                    !.pc = "stream"]

\* copyHeaders, WriteHeader and the choice between miss and skip
ServeUpstream(rec, resp) ==
    LET reason == IF resp.status \div 100 # 2
                  THEN "non-2xx upstream response" ELSE rec.skip
    IN  [rec EXCEPT !.resp = resp, !.status = resp.status,
                    !.cl = IF resp.cl THEN ToString(Len(resp.body)) ELSE "",
                    !.ct = resp.ct, !.dcd = resp.dcd,
                    !.skip = reason,
                    !.outcome = IF reason = "" THEN "miss" ELSE "skip",
                    !.pc = "stream"]

Fetch(r) ==
    /\ req[r].pc = "fetch"
    /\ \E env \in EnvironmentsOf(req[r].obj.Registry) :
       \E moved \in IF req[r].obj = ManMoving THEN BOOLEAN ELSE {FALSE} :
       \E asked \in {reqWithCreds(req[r].obj, req[r].hdr, env)} :
       \E got \in {IF moved /\ ~IsError(asked.resp)
                    THEN [asked EXCEPT !.resp = UpstreamMoved] ELSE asked} :
       \E rec \in {[req[r] EXCEPT !.nUp = @ + Len(got.sent),
                                   !.sent = got.sent, !.hdr = got.hdr,
                                   !.first = FirstStatus(req[r].obj,
                                                         req[r].hdr, env)]} :
             IF IsError(got.resp)
             THEN /\ Step(r, [rec EXCEPT !.status = 500, !.upErr = TRUE,
                                         !.pc = "done"], fs)
                  /\ UNCHANGED <<misses, skips>>
             ELSE \E next \in {ServeUpstream(rec, got.resp)} :
                  /\ Step(r, next, fs)
                  /\ misses' = IF next.outcome = "miss" THEN misses + 1 ELSE misses
                  /\ skips' = IF next.outcome = "skip" THEN skips + 1 ELSE skips
    /\ UNCHANGED <<origin, hits, clock, scenario, service>>

(***************************************************************************)
(* readIntoWriters: one chunk goes to every sink in turn; the first sink   *)
(* that fails or writes short ends the copy.  sink names the failing sink  *)
(* ("" when none fails) and written the bytes it took before failing.      *)
(***************************************************************************)
\* faulty variant: every Write starts the temporary file afresh
FileWriteTruncating(r, rec, dir, bytes) ==
    LET name == IF rec.file = "" THEN TempName(r, rec.obj) ELSE rec.file
    IN  [rec |-> [rec EXCEPT !.file = name],
         dir |-> WriteFile(dir, name, bytes)]

\* FileWriter.Write: the temporary file is created by the first Write
FileWrite(r, rec, dir, bytes) ==
    LET name == IF rec.file = "" THEN TempName(r, rec.obj) ELSE rec.file
        old == IF Exists(dir, name) THEN dir[name] ELSE ""
    IN  [rec |-> [rec EXCEPT !.file = name],
         dir |-> WriteFile(dir, name, old \o bytes)]

\* faulty variant: the storage writer and the hasher are sinks of every request
SinksAlwaysCache(rec) ==
    <<"cache", "sha">> \o (IF rec.isHead THEN << >> ELSE <<"client">>)

\* the sinks of this request, in the order GetObject appends them
Sinks(rec) ==
    (IF rec.skip = "" THEN <<"cache", "sha">> ELSE << >>)
        \o (IF rec.isHead THEN << >> ELSE <<"client">>)

SinkIndex(rec, sink) ==
    IF \E i \in 1..Len(Sinks(rec)) : Sinks(rec)[i] = sink
    THEN CHOOSE i \in 1..Len(Sinks(rec)) : Sinks(rec)[i] = sink
    ELSE 0

\* the bytes of chunk that sink takes when failing is the sink that fails
Taken(rec, sink, chunk, failing, written) ==
    IF SinkIndex(rec, sink) = 0 THEN ""
    ELSE IF failing = "" \/ SinkIndex(rec, sink) < SinkIndex(rec, failing)
         THEN chunk
    ELSE IF sink = failing THEN SubSeq(chunk, 1, written)
    ELSE ""

\* faulty variant: the loop goes on after a sink failed or wrote short
WriteAllIgnoringErrors(r, rec, dir, chunk, failing, written) ==
    LET toCache == Taken(rec, "cache", chunk, failing, written)
        cached == IF SinkIndex(rec, "cache") # 0
                     /\ ~(failing = "cache" /\ written = 0)
                  THEN FileWrite(r, rec, dir, toCache)
                  ELSE [rec |-> rec, dir |-> dir]
        rec2 == [cached.rec EXCEPT
                    !.sha = @ \o chunk,
                    !.out = @ \o Taken(rec, "client", chunk, failing, written),
                    !.ioErr = @ \/ failing # ""]
    IN  [rec |-> rec2, dir |-> cached.dir, err |-> FALSE]

\* the write loop of readIntoWriters for one chunk; err tells whether it
\* returned "write error during copy"
WriteAll(r, rec, dir, chunk, failing, written) ==
    LET toCache == Taken(rec, "cache", chunk, failing, written)
        cached == IF SinkIndex(rec, "cache") # 0
                     /\ ~(failing = "cache" /\ written = 0)
                  THEN FileWrite(r, rec, dir, toCache)
                  ELSE [rec |-> rec, dir |-> dir]
        rec2 == [cached.rec EXCEPT
                    !.sha = @ \o Taken(rec, "sha", chunk, failing, written),
                    !.out = @ \o Taken(rec, "client", chunk, failing, written),
                    !.ioErr = @ \/ failing # ""]
    IN  [rec |-> rec2, dir |-> cached.dir, err |-> failing # ""]

\* faulty variant: the digest is never compared
DigestNeverCompared(rec) == FALSE

\* "validate digest": TRUE when the digest is known and the body differs
DigestMismatch(rec) ==
    LET cd == ToLower(rec.resp.dcd)
        digest == IF cd = "" THEN rec.obj.Ref ELSE cd
    IN  /\ HasPrefix(digest, "sha256:")
        /\ "sha256:" \o ToLower(Sha256Hex(rec.sha)) # digest

\* faulty variant: a Write of zero bytes reaches the writer at the end of
\* the body, so a writer that took no byte has a temporary file as well
AfterStreamOpensFile(r, rec, dir) ==
    IF rec.skip # "" THEN Return(r, rec, dir)
    ELSE IF DigestMismatch(rec)
         THEN Return(r, [rec EXCEPT !.mismatch = TRUE], dir)
    ELSE IF rec.file = ""
         THEN Step(r, [rec EXCEPT !.file = TempName(r, rec.obj),
                                  !.pc = "close"],
                   WriteFile(dir, TempName(r, rec.obj), ""))
    ELSE Step(r, [rec EXCEPT !.pc = "close"], dir)

\* readIntoWriters returned nil: the rest of GetObject before Close
AfterStream(r, rec, dir) ==
    IF rec.skip # "" THEN Return(r, rec, dir)
    ELSE IF DigestMismatch(rec)
         THEN Return(r, [rec EXCEPT !.mismatch = TRUE], dir)
    ELSE Step(r, [rec EXCEPT !.pc = "close"], dir)

\* src.Read failed: "read error during copy", and GetObject returns
ReadError(r, rec, dir) == Return(r, [rec EXCEPT !.ioErr = TRUE], dir)

\* one turn of the loop of readIntoWriters over upstreamResp.Body
Stream(r) ==
    /\ req[r].pc = "stream"
    /\ \E rec \in {req[r]} :
       \E body \in {rec.resp.body} :
       \E left \in {Len(body) - rec.pos} :
           \/ \* src.Read fails
              ReadError(r, rec, fs)
           \/ \* src.Read returns 0, io.EOF
              /\ left = 0
              /\ AfterStream(r, rec, fs)
           \/ \* src.Read returns n bytes, and io.EOF with the last ones or not
              \E n \in 1..ChunkMax, eof \in BOOLEAN :
              \E failing \in {"", "cache", "client"}, written \in 0..(ChunkMax - 1) :
                /\ n <= left
                /\ eof => n = left
                /\ failing # "" => SinkIndex(rec, failing) # 0
                /\ IF failing = "" THEN written = 0 ELSE written < n
                /\ \E chunk \in {SubSeq(body, rec.pos + 1, rec.pos + n)} :
                   \E w \in {WriteAll(r, [rec EXCEPT !.pos = @ + n], fs,
                                      chunk, failing, written)} :
                       IF w.err THEN Return(r, w.rec, w.dir)
                       ELSE IF eof THEN AfterStream(r, w.rec, w.dir)
                       ELSE Step(r, w.rec, w.dir)
    /\ UNCHANGED <<origin, hits, misses, skips, clock, scenario, service>>
(***************************************************************************)
(* FileWriter.Close: close the temporary file, rename it to the payload    *)
(* path, create the sidecar, write it.  The handler yields before each     *)
(* operation on the directory.                                             *)
(***************************************************************************)
\* c.file.Close, os.MkdirAll and os.Rename; any of them may fail
CloseRename(r) ==
    /\ req[r].pc = "close"
    /\ \E rec \in {req[r]} :
       \E path \in {PayloadPath(rec.obj)} :
           IF rec.file = ""
           THEN \* nothing was written: Close returns nil
                /\ Return(r, rec, fs)
                /\ origin' = origin
           ELSE \E fault \in BOOLEAN :
                  IF fault \/ ~Exists(fs, rec.file)
                  THEN /\ Return(r, [rec EXCEPT !.closeErr = TRUE], fs)
                       /\ origin' = origin
                  ELSE /\ Step(r, [rec EXCEPT !.published = TRUE,
                                              !.pc = "create"],
                               Rename(fs, rec.file, path))
                       /\ origin' = WriteFile(origin, path,
                                      [dcd |-> rec.resp.dcd,
                                       body |-> rec.resp.body,
                                       read |-> rec.pos,
                                       ioErr |-> rec.ioErr])
    /\ UNCHANGED <<hits, misses, skips, clock, scenario, service>>

\* time.Now() and os.Create(manifestFilePath), which empties an existing file
CreateSidecar(r) ==
    /\ req[r].pc = "create"
    /\ \E now \in Dates, fault \in BOOLEAN :
       \E rec \in {[req[r] EXCEPT !.date = now]} :
             /\ now >= clock
             /\ clock' = now
             /\ IF fault THEN Return(r, [rec EXCEPT !.closeErr = TRUE], fs)
                ELSE Step(r, [rec EXCEPT !.sidecar = "created", !.pc = "write"],
                          WriteFile(fs, SidecarPath(rec.obj), ""))
    /\ UNCHANGED <<origin, hits, misses, skips, scenario, service>>

\* the byte counts a Write of the sidecar may stop at: all of it, none of
\* it, or all but the last byte
WriteLengths(doc) == {Len(doc), Len(doc) - 1, 0}

\* the sidecar Close was called to write
SidecarOf(rec) ==
    Marshal(CacheManifest(rec.obj, rec.resp.ct, ToLower(rec.resp.dcd), rec.date))

\* manifestFile.Write(manifestJson), its error dropped, and manifestFile.Close
WriteSidecar(r) ==
    /\ req[r].pc = "write"
    /\ \E rec \in {req[r]} :
       \E path \in {SidecarPath(rec.obj)} :
       \E doc \in {SidecarOf(rec)} :
       \E old \in {IF Exists(fs, path) THEN fs[path] ELSE ""} :
           \E n \in WriteLengths(doc) :
             Return(r, [rec EXCEPT !.sidecar = IF n = Len(doc) THEN "complete"
                                               ELSE "partial"],
                    WriteFile(fs, path, Overlay(old, doc, n)))
    /\ UNCHANGED <<origin, hits, misses, skips, clock, scenario, service>>

(***************************************************************************)
(* Specifications.                                                        *)
(***************************************************************************)
Handler(r) ==
    \/ Start(r)
    \/ StatPayload(r)
    \/ StatSidecar(r)
    \/ ReadManifest(r)
    \/ HitBody(r)
    \/ Fetch(r)
    \/ Stream(r)
    \/ CloseRename(r)
    \/ CreateSidecar(r)
    \/ WriteSidecar(r)

\* handlers run concurrently
Next == \E r \in Slots : Handler(r)

Spec == Init /\ [][Next]_vars

SpecWide == InitWide /\ [][Next]_vars

\* one request at a time: a handler moves only while every other is at rest
Quiet(r) == \A q \in Slots \ {r} : req[q].pc \in {"idle", "done"}

NextSeq == \E r \in Slots : Quiet(r) /\ Handler(r)

SpecSeq == Init /\ [][NextSeq]_vars

\* every call a handler waits for (file system, upstream, client) returns,
\* with a result or with an error: the handler that can take a step
\* eventually takes one
SpecLive == SpecSeq /\ WF_vars(NextSeq)

(***************************************************************************)
(* The operator may delete any file of the cache directory at any time     *)
(* (README, Notes).  SpecOob runs one request at a time and lets the       *)
(* operator delete files between two requests.                             *)
(***************************************************************************)
OperatorDelete ==
    /\ \E path \in DOMAIN fs : fs' = Remove(fs, path)
    /\ UNCHANGED <<req, origin, hits, misses, skips, clock, scenario, service>>

NextOob ==
    \/ NextSeq
    \/ (\A q \in Slots : req[q].pc \in {"idle", "done"}) /\ OperatorDelete

SpecOob == Init /\ [][NextOob]_vars

(***************************************************************************)
(* Properties.                                                             *)
(***************************************************************************)
Done(r) == req[r].pc = "done"

\* r2 is the GET that follows the GET r1, for the same object
GetThenGet(r1, r2) ==
    /\ r2 = r1 + 1
    /\ Done(r1) /\ Done(r2)
    /\ req[r1].obj = req[r2].obj
    /\ ~req[r1].isHead /\ ~req[r2].isHead

\* the request wrote payload and sidecar in full
Committed(r) == req[r].published /\ req[r].sidecar = "complete"

\* C1 as stated: after a GET of a non-skipped object that went upstream and
\* got 2xx, the next GET of it is a hit without any upstream request, with
\* the same body and the same Content-Length.
C1_AnyMissThenHit ==
    \A r1, r2 \in Slots :
        (/\ GetThenGet(r1, r2)
         /\ req[r1].skip = ""
         /\ req[r1].outcome = "miss")
        => /\ req[r2].outcome = "hit"
           /\ req[r2].nUp = 0
           /\ req[r2].out = req[r1].out
           /\ req[r2].cl = req[r1].cl

\* C1 amended: when the first GET committed the object and the second meets
\* no I/O fault, the second is a hit without any upstream request, its body
\* is the body of the first, its Content-Length is the length of that body,
\* and equals the Content-Length of the first when upstream sent one.
C1_MissThenHit ==
    \A r1, r2 \in Slots :
        (/\ GetThenGet(r1, r2)
         /\ req[r1].outcome = "miss"
         /\ Committed(r1)
         /\ ~req[r2].fault
         /\ ~req[r2].ioErr)
        => /\ req[r2].outcome = "hit"
           /\ req[r2].nUp = 0
           /\ req[r2].out = req[r1].out
           /\ req[r2].cl = ToString(Len(req[r2].out))
           /\ req[r1].cl # "" => req[r2].cl = req[r1].cl

C1_Witness ==
    \E r1, r2 \in Slots :
        /\ GetThenGet(r1, r2)
        /\ req[r1].outcome = "miss" /\ Committed(r1)
        /\ req[r1].cl = "2"
        /\ req[r2].outcome = "hit" /\ req[r2].out = "ab" /\ req[r2].nUp = 0

\* C2: a payload at its final path is the complete body upstream sent, and
\* Close is reached only after the body was read to EOF without error.
C2_PayloadIsWholeBody ==
    /\ \A o \in Objects :
         Exists(fs, PayloadPath(o)) =>
            /\ fs[PayloadPath(o)] = origin[PayloadPath(o)].body
            /\ origin[PayloadPath(o)].read = Len(origin[PayloadPath(o)].body)
    /\ \A r \in Slots :
         req[r].pc \in {"close", "create", "write"} =>
            /\ req[r].pos = Len(req[r].resp.body)
            /\ ~req[r].ioErr

C2_Witness ==
    \E r \in Slots :
        /\ Done(r) /\ Committed(r) /\ req[r].obj = ManV3
        /\ fs[PayloadPath(ManV3)] = "ab"

\* C3: a request whose copy met a read error or a failed or short write has
\* returned without committing, and no payload comes from such a request.
C3_NoCommitAfterError ==
    /\ \A r \in Slots :
         req[r].ioErr => /\ Done(r)
                         /\ ~req[r].published
                         /\ req[r].sidecar = ""
    /\ \A p \in DOMAIN origin : ~origin[p].ioErr

C3_Witness ==
    \E r \in Slots :
        /\ Done(r) /\ req[r].ioErr /\ req[r].outcome = "miss"
        /\ req[r].obj = ManV3 /\ req[r].out = "a"

\* C4: when upstream sent a Docker-Content-Digest starting with sha256:, the
\* SHA-256 of the cached payload equals it.
C4_PayloadMatchesDigest ==
    \A o \in Objects :
        (/\ Exists(fs, PayloadPath(o))
         /\ HasPrefix(ToLower(origin[PayloadPath(o)].dcd), "sha256:"))
        => "sha256:" \o ToLower(Sha256Hex(fs[PayloadPath(o)]))
              = ToLower(origin[PayloadPath(o)].dcd)

C4_Witness ==
    /\ Present(fs, ManV1)
    /\ origin[PayloadPath(ManV1)].dcd # ""

\* C5: on a digest mismatch the request commits nothing and leaves no
\* temporary file, a GET client has received the whole upstream body, and a
\* later request for the object is not a hit and goes upstream again.
C5_MismatchAborts ==
    \A r \in Slots :
        req[r].mismatch =>
            /\ Done(r)
            /\ ~req[r].published /\ req[r].sidecar = ""
            /\ ~Exists(fs, TempName(r, req[r].obj))
            /\ ~req[r].isHead => req[r].out = Upstream(req[r].obj).body
            /\ \A q \in Slots :
                 (q > r /\ Done(q) /\ req[q].obj = req[r].obj /\ ~req[q].fault)
                 => req[q].lookup = "miss" /\ req[q].nUp = 1

C5_Witness ==
    \E r, q \in Slots :
        /\ q = r + 1 /\ Done(r) /\ Done(q)
        /\ req[r].mismatch /\ ~req[r].isHead /\ req[r].out = "ax"
        /\ req[q].obj = req[r].obj /\ req[q].mismatch

\* C6: GetCache returns a reader exactly when payload and sidecar both exist
\* and the sidecar parses (and the file system answered); with only one of
\* the two files it reports a miss; hit and miss both come with a writer.
C6_PresenceRule ==
    \A r \in Slots :
        req[r].lookup # "" =>
            /\ req[r].lookup = "hit" <=> (req[r].seen.present /\ ~req[r].fault)
            /\ (~req[r].fault /\ req[r].seen.payload # req[r].seen.sidecar)
                  => req[r].lookup = "miss"
            /\ req[r].lookup \in {"hit", "miss"} => req[r].writer

C6_Witness ==
    \E r \in Slots :
        /\ req[r].lookup = "miss" /\ req[r].writer
        /\ req[r].seen.sidecar /\ ~req[r].seen.payload

\* C7 as stated: GetCache returns an error only when the file system failed,
\* and a payload whose sidecar does not parse is a miss.
C7_ErrorOnlyForIoFailure ==
    \A r \in Slots :
        /\ req[r].lookup = "err" => req[r].fault
        /\ (/\ req[r].lookup # "" /\ ~req[r].fault
            /\ req[r].seen.payload /\ req[r].seen.sidecar
            /\ ~req[r].seen.present)
           => req[r].lookup = "miss"

\* C8 as stated: after a Close that renamed the payload and did not complete
\* the sidecar, the next request for the object finds a miss.
C8_IncompleteCommitIsMiss ==
    \A r1, r2 \in Slots :
        (/\ r2 = r1 + 1 /\ Done(r1) /\ Done(r2)
         /\ req[r1].obj = req[r2].obj
         /\ req[r1].published /\ req[r1].sidecar # "complete"
         /\ req[r2].lookup # "" /\ ~req[r2].fault)
        => req[r2].lookup = "miss"

\* C9 as stated: when two misses for the same object have both committed in
\* full, the object is cached: the payload is the upstream body and the
\* sidecar parses.
C9_ConcurrentMissesCommit ==
    \A r1, r2 \in Slots :
        (/\ r1 # r2 /\ Done(r1) /\ Done(r2)
         /\ req[r1].obj = req[r2].obj
         /\ req[r1].outcome = "miss" /\ req[r2].outcome = "miss"
         /\ Committed(r1) /\ Committed(r2))
        => /\ Present(fs, req[r1].obj)
           /\ fs[PayloadPath(req[r1].obj)] = Upstream(req[r1].obj).body

\* the files of object o are the same after the step
SameFiles(o) ==
    /\ Exists(fs', PayloadPath(o)) /\ Exists(fs', SidecarPath(o))
    /\ fs'[PayloadPath(o)] = fs[PayloadPath(o)]
    /\ fs'[SidecarPath(o)] = fs[SidecarPath(o)]

LateCommitter(r, o) ==
    /\ PayloadPath(req[r].obj) = PayloadPath(o)
    /\ ~req[r].startPresent
    /\ req[r].pc \in {"close", "create", "write"}
    /\ req'[r] # req[r]

Answered(r) == req[r].pc \in {"stream", "close", "create", "write", "done"}
                 /\ req[r].engine
                 /\ ~req[r].upErr /\ req[r].lookup # "err"
                 /\ req[r].outcome # "hit"

IsPrefix(p, s) == Len(p) <= Len(s) /\ SubSeq(s, 1, Len(p)) = p

FirstCarriesClientHeaders(r) ==
    /\ Len(req[r].sent) >= 1
    /\ req[r].sent[1].to = "registry"
    /\ req[r].sent[1].url = UpstreamUrl(req[r].obj)
    /\ req[r].sent[1].Authorization = req[r].client.Authorization
    /\ req[r].sent[1].AcceptEncoding = req[r].client.AcceptEncoding
    /\ req[r].sent[1].Range = req[r].client.Range

\* C12: a manifest request for a private registry never calls Lookup, is
\* never a hit, stores nothing, and goes upstream with the headers the
\* client sent; a blob request for a private registry calls Lookup, is a hit
\* without upstream request when the blob is cached, and a miss that stores
\* the blob otherwise.
C12_PrivateRegistry ==
    \A r \in Slots :
        (req[r].pc # "idle" /\ req[r].obj.Registry \in service.PrivateRegistries)
        => IF req[r].obj.Type = ObjectTypeManifest
           THEN /\ req[r].lookup = "" /\ ~req[r].writer
                /\ req[r].outcome # "hit"
                /\ IsPrefix(req[r].out, Upstream(req[r].obj).body)
                /\ ~Exists(fs, TempName(r, req[r].obj))
                /\ ~req[r].published /\ req[r].sidecar = ""
                /\ req[r].pc \in {"stream", "done"}
                      => FirstCarriesClientHeaders(r)
           ELSE /\ req[r].skip \in {"", "non-2xx upstream response"}
                /\ Done(r) => req[r].lookup # ""
                /\ req[r].lookup = "hit"
                      => req[r].nUp = 0 /\ req[r].outcome = "hit"
                /\ (Done(r) /\ req[r].lookup = "miss" /\ Answered(r)
                    /\ ~req[r].ioErr /\ ~req[r].mismatch /\ ~req[r].closeErr)
                      => req[r].outcome = "miss" /\ req[r].published

\* a GET of the private manifest got the upstream body, asked for with the
\* client's headers, although the directory held a copy of it, and a request
\* for the private blob committed it
C12_Witness ==
    /\ Present(fs, ManPriv) /\ fs[PayloadPath(ManPriv)] = "z"
    /\ \E r \in Slots :
          /\ Done(r) /\ req[r].obj = ManPriv /\ ~req[r].isHead
          /\ req[r].outcome = "skip" /\ req[r].out = "a"
          /\ req[r].sent[1].AcceptEncoding = "gzip"
    /\ \E r \in Slots :
          /\ Done(r) /\ req[r].obj = BlobPriv /\ Committed(r)

\* upstream answered r with a status outside 200..299
NonSuccess(r) == Answered(r) /\ req[r].status \div 100 # 2

\* the answers outside 200..299 the registries of the model give
NonSuccessResponse(r) ==
    IF req[r].status = 401 THEN Unauthorized ELSE Upstream(req[r].obj)

\* C13: a request upstream answers with a status outside 200..299 passes on
\* that status, the headers and the body (no body for HEAD), counts as skip
\* and stores nothing: no temporary file, no rename, no sidecar; the object
\* is not cached by it, and the next request for the same object sends an
\* upstream request again.
C13_NonSuccessPassedNotCached ==
    /\ \A r \in Slots :
          NonSuccess(r)
          => /\ req[r].status = NonSuccessResponse(r).status
             /\ req[r].ct = NonSuccessResponse(r).ct
             /\ req[r].dcd = NonSuccessResponse(r).dcd
             /\ req[r].cl = ToString(Len(NonSuccessResponse(r).body))
             /\ IsPrefix(req[r].out, NonSuccessResponse(r).body)
             /\ req[r].isHead => req[r].out = ""
             /\ (Done(r) /\ ~req[r].isHead /\ ~req[r].ioErr)
                   => req[r].out = NonSuccessResponse(r).body
             /\ req[r].outcome = "skip"
             /\ req[r].pc \in {"stream", "done"}
             /\ ~Exists(fs, TempName(r, req[r].obj))
             /\ ~req[r].published /\ req[r].sidecar = ""
    /\ \A r1, r2 \in Slots :
          (/\ r2 = r1 + 1
           /\ Done(r1) /\ Done(r2)
           /\ req[r1].obj = req[r2].obj
           /\ req[r1].isHead = req[r2].isHead
           /\ NonSuccess(r1)
           /\ ~req[r2].fault)
          => /\ req[r2].lookup # "hit"
             /\ Len(req[r2].sent) >= 1
             /\ req[r2].sent[1].url = UpstreamUrl(req[r2].obj)

\* two GETs of a manifest the registry does not have: both got its 404 and
\* the body, the second from upstream again, and the directory holds nothing
\* of the object
C13_Witness ==
    \E r1, r2 \in Slots :
        /\ GetThenGet(r1, r2)
        /\ req[r1].obj = ManGone
        /\ req[r1].status = 404 /\ req[r1].out = "x"
        /\ req[r2].status = 404 /\ req[r2].out = "x"
        /\ req[r2].nUp = 1
        /\ ~Exists(fs, PayloadPath(ManGone))
        /\ skips = 2

(***************************************************************************)
(* Blobs across registries.                                                *)
(***************************************************************************)
\* r2 follows r1 and asks for the blob of the same digest as r1
SameBlob(r1, r2) ==
    /\ r2 = r1 + 1
    /\ Done(r1) /\ Done(r2)
    /\ req[r1].obj.Type = ObjectTypeBlob
    /\ req[r2].obj.Type = ObjectTypeBlob
    /\ req[r1].obj.Ref = req[r2].obj.Ref

\* C14: blobs of the same digest have the same storage key whatever their
\* registry, and a request for a blob that follows a request that committed
\* the blob of that digest, through whichever registry, is a hit that makes
\* no upstream request and returns the committed body.
C14_BlobSharedAcrossRegistries ==
    /\ \A o1, o2 \in Objects :
          (o1.Type = ObjectTypeBlob /\ o2.Type = ObjectTypeBlob
             /\ o1.Ref = o2.Ref)
          => PayloadPath(o1) = PayloadPath(o2)
    /\ \A r1, r2 \in Slots :
          (/\ SameBlob(r1, r2)
           /\ req[r1].outcome = "miss" /\ Committed(r1)
           /\ ~req[r2].fault)
          => /\ req[r2].outcome = "hit"
             /\ req[r2].nUp = 0 /\ req[r2].sent = << >>
             /\ (~req[r2].isHead /\ ~req[r2].ioErr)
                   => req[r2].out = Upstream(req[r1].obj).body

\* the blob committed by a request naming r.io is a hit for a request
\* naming priv.io
C14_Witness ==
    \E r1, r2 \in Slots :
        /\ SameBlob(r1, r2)
        /\ req[r1].obj = BlobCd /\ req[r2].obj = BlobPriv
        /\ Committed(r1)
        /\ ~req[r2].isHead
        /\ req[r2].outcome = "hit" /\ req[r2].nUp = 0
        /\ req[r2].out = "cd"

(***************************************************************************)
(* Default credentials.                                                    *)
(***************************************************************************)
\* the three conditions under which reqWithCreds turns to DefaultCreds
CredsConditions(r) ==
    /\ req[r].first = 401
    /\ req[r].client.Authorization = ""
    /\ req[r].obj.Registry \in DOMAIN DefaultCreds

\* r sent the default credentials of its registry, to the registry or to
\* the token endpoint
UsedDefaultCreds(r) ==
    \E i \in 1..Len(req[r].sent) :
        \/ req[r].sent[i].to = "token"
        \/ /\ req[r].obj.Registry \in DOMAIN DefaultCreds
           /\ req[r].sent[i].Authorization
                 = BasicAuth(DefaultCreds[req[r].obj.Registry])

\* the answer upstream gave to the first request of r
FirstResponse(r) ==
    IF req[r].first = 401 THEN Unauthorized ELSE Upstream(req[r].obj)

\* C15: the default credentials are sent only when the first answer was 401,
\* the client sent no Authorization and DefaultCreds has the host; when one
\* of the three fails, one upstream request is made, it carries the
\* Authorization of the client, and the first answer is what the client gets.
C15_CredsOnlyWhenNeeded ==
    \A r \in Slots :
        req[r].sent # << >>
        => /\ UsedDefaultCreds(r) => CredsConditions(r)
           /\ Len(req[r].sent) > 1 => CredsConditions(r)
           /\ ~CredsConditions(r)
                 => /\ Len(req[r].sent) = 1
                    /\ req[r].sent[1].to = "registry"
                    /\ req[r].sent[1].url = UpstreamUrl(req[r].obj)
                    /\ req[r].sent[1].Authorization
                          = req[r].client.Authorization
                    /\ req[r].hdr.Authorization = req[r].client.Authorization
                    /\ req[r].upErr <=> req[r].first = 0
                    /\ ~req[r].upErr
                          => /\ req[r].status = FirstResponse(r).status
                             /\ req[r].ct = FirstResponse(r).ct
                             /\ req[r].dcd = FirstResponse(r).dcd
                             /\ IsPrefix(req[r].out, FirstResponse(r).body)

\* a request with the client's own Authorization was rejected and went
\* upstream once; a request without one was retried with the default
\* credentials
C15_Witness ==
    \E r1, r2 \in Slots :
        /\ Done(r1) /\ Done(r2)
        /\ req[r1].obj = ManBearer
        /\ req[r1].client.Authorization = "Bearer c"
        /\ req[r1].first = 401 /\ req[r1].status = 401
        /\ Len(req[r1].sent) = 1
        /\ req[r1].sent[1].Authorization = "Bearer c"
        /\ req[r2].obj = ManBasic
        /\ req[r2].client.Authorization = ""
        /\ UsedDefaultCreds(r2)
        /\ req[r2].status = 200

\* the upstream requests r made to the registry
RegistryRequests(r) ==
    {i \in 1..Len(req[r].sent) : req[r].sent[i].to = "registry"}

AtMostThreeRequests ==
    \A r \in Slots :
        /\ Cardinality(RegistryRequests(r)) <= 2
        /\ Cardinality({i \in 1..Len(req[r].sent) :
                           req[r].sent[i].to = "token"}) <= 1
        /\ Len(req[r].sent) <= 3
        /\ req[r].nUp = Len(req[r].sent)
        /\ \A i \in RegistryRequests(r) :
              req[r].sent[i].url = UpstreamUrl(req[r].obj)

RetryRejected(r) ==
    /\ Len(req[r].sent) >= 2
    /\ req[r].sent[Len(req[r].sent)].to = "registry"
    /\ ~req[r].upErr
    /\ req[r].status \div 100 # 2

\* C17: a request whose first answer was 401, for a host with default
\* credentials, and whose exchange failed at the token request or at the
\* re-issued request, answers the client with 401.
C17_FailedExchangeSurfaces401 ==
    \A r \in Slots :
        (/\ Done(r)
         /\ CredsConditions(r)
         /\ \/ Len(req[r].sent) = 2 /\ req[r].sent[2].to = "token"
            \/ RetryRejected(r))
        => req[r].status = 401

(***************************************************************************)
(* The counters.                                                           *)
(***************************************************************************)
\* the requests that incremented the counter of the result
Counted(result) == {r \in Slots : req[r].outcome = result}

\* each counter was incremented once by each request with its result, and
\* by nothing else
CountersMatch ==
    /\ hits = Cardinality(Counted("hit"))
    /\ misses = Cardinality(Counted("miss"))
    /\ skips = Cardinality(Counted("skip"))

\* hit when served from storage, skip when the policy or the upstream status
\* says so, miss otherwise
ResultRule(r) ==
    /\ req[r].outcome = "hit" <=> req[r].lookup = "hit"
    /\ req[r].outcome = "skip"
          <=> /\ Answered(r)
              /\ getSkipReason(service, req[r].obj) # "" \/ req[r].status \div 100 # 2
    /\ req[r].outcome = "miss"
          <=> /\ Answered(r)
              /\ getSkipReason(service, req[r].obj) = "" /\ req[r].status \div 100 = 2

\* C18 as stated: every request that has returned incremented exactly one of
\* the three counters, by the rule of the results.
C18_ExactlyOneCounter ==
    /\ CountersMatch
    /\ \A r \in Slots :
          /\ ResultRule(r)
          /\ (Done(r) /\ req[r].engine)
                => req[r].outcome \in {"hit", "miss", "skip"}

\* C18 amended: a request that has returned incremented exactly one of the
\* three counters, by the rule of the results, unless the engine answered
\* 500 itself, and then it incremented none; no request increments two.
C18_OneCounterUnlessEngineError ==
    /\ CountersMatch
    /\ \A r \in Slots :
          /\ ResultRule(r)
          /\ (Done(r) /\ req[r].engine) =>
                IF req[r].lookup = "err" \/ req[r].upErr
                THEN req[r].outcome = "" /\ req[r].status = 500
                ELSE req[r].outcome \in {"hit", "miss", "skip"}

\* one request was answered 500 after a failed upstream request and counted
\* nowhere, another was passed a 404 and counted as skip
C18_Witness ==
    \E r1, r2 \in Slots :
        /\ Done(r1) /\ Done(r2)
        /\ req[r1].upErr /\ req[r1].status = 500 /\ req[r1].outcome = ""
        /\ req[r2].status = 404 /\ req[r2].outcome = "skip"
        /\ hits + misses + skips = 1

(***************************************************************************)
(* Deletion by the operator.                                               *)
(***************************************************************************)
\* r2 is the request that follows r1, for the same object
Follows(r1, r2) ==
    /\ r2 = r1 + 1
    /\ req[r1].pc = "done" /\ req[r2].pc # "idle"
    /\ req[r1].obj = req[r2].obj

\* r1 committed the object and the operator deleted its payload, its
\* sidecar or both before r2 began
DeletedBetween(r1, r2) ==
    /\ Follows(r1, r2)
    /\ req[r1].outcome = "miss" /\ Committed(r1)
    /\ ~req[r2].startPresent

\* nothing failed while r fetched and stored the object
CleanFetch(r) ==
    /\ Done(r) /\ Answered(r)
    /\ req[r].status \div 100 = 2
    /\ ~req[r].ioErr /\ ~req[r].mismatch /\ ~req[r].closeErr
    /\ req[r].sidecar # "partial"

\* C19: when the operator deleted the payload, the sidecar or both of a
\* committed object, the next request for it, if its lookup meets no I/O
\* fault, is a miss and not an error and goes upstream; if nothing fails on
\* the way it commits the object again, and the request after that, with
\* nothing deleted in between, is a hit without upstream request.
C19_DeletedIsMissThenHit ==
    \A r1, r2 \in Slots :
        (DeletedBetween(r1, r2) /\ ~req[r2].fault /\ req[r2].pc # "stat1")
        => /\ req[r2].lookup \in {"", "miss"}
           /\ req[r2].pc \notin {"stat1", "stat2", "readman"}
                 => req[r2].lookup = "miss"
           /\ Done(r2) => Len(req[r2].sent) >= 1
           /\ CleanFetch(r2) => Committed(r2) /\ req[r2].outcome = "miss"
           /\ \A r3 \in Slots :
                 (/\ Follows(r2, r3) /\ Done(r3)
                  /\ Committed(r2)
                  /\ req[r3].startPresent
                  /\ ~req[r3].fault)
                 => /\ req[r3].outcome = "hit"
                    /\ req[r3].nUp = 0
                    /\ (~req[r3].isHead /\ ~req[r3].ioErr)
                          => req[r3].out = Upstream(req[r3].obj).body

\* the payload alone was deleted after the first request committed; the
\* second request found the sidecar only, fetched and committed again, and
\* the third was a hit
C19_Witness ==
    \E r1, r2, r3 \in Slots :
        /\ DeletedBetween(r1, r2)
        /\ ~req[r2].seen.payload /\ req[r2].seen.sidecar
        /\ req[r2].lookup = "miss"
        /\ CleanFetch(r2) /\ Committed(r2)
        /\ Follows(r2, r3) /\ Done(r3) /\ ~req[r3].isHead
        /\ req[r3].outcome = "hit" /\ req[r3].out = "ab"

(***************************************************************************)
(* HEAD, GET, HEAD.                                                        *)
(***************************************************************************)
\* a HEAD for an object that is neither stored nor skipped, then a GET for it
HeadThenGet(r1, r2) ==
    /\ Follows(r1, r2) /\ Done(r2)
    /\ req[r1].isHead /\ ~req[r2].isHead
    /\ req[r1].skip = ""
    /\ ~req[r1].startPresent

\* the headers a hit takes from the stored object
HitHeaders(r) == <<req[r].cl, req[r].ct, req[r].dcd>>

HasSuffix(s, suffix) ==
    /\ Len(s) >= Len(suffix)
    /\ SubSeq(s, Len(s) - Len(suffix) + 1, Len(s)) = suffix

\* the engine did nothing for request r: no lookup, no upstream request, no
\* counter, no writer
EngineIdle(r) ==
    /\ ~req[r].engine
    /\ req[r].lookup = "" /\ ~req[r].writer
    /\ req[r].sent = << >> /\ req[r].nUp = 0
    /\ req[r].outcome = ""
    /\ req[r].file = "" /\ ~req[r].published /\ req[r].sidecar = ""

\* C21: a manifest or blob request without ns is answered 400 with a body
\* that names the repo, and GetObject is not called for it: it looks
\* nothing up and sends nothing upstream.
C21_NoNamespaceIs400 ==
    \A r \in Slots :
        (req[r].pc # "idle" /\ req[r].q.ns = "")
        => /\ Done(r)
           /\ req[r].status = 400
           /\ req[r].out # req[r].q.repo /\ HasSuffix(req[r].out, req[r].q.repo)
           /\ EngineIdle(r)

\* a blob request and a manifest request without ns were both answered 400
C21_Witness ==
    \E r1, r2 \in Slots :
        /\ Done(r1) /\ req[r1].q.ns = "" /\ req[r1].q.kind = ObjectTypeBlob
        /\ req[r1].status = 400
        /\ Done(r2) /\ req[r2].q.ns = "" /\ req[r2].q.kind = ObjectTypeManifest
        /\ req[r2].status = 400 /\ HasSuffix(req[r2].out, "for app")

\* C22: a request whose method is neither GET nor HEAD is answered 400 and
\* does not reach the engine.
C22_OtherMethodIs400 ==
    \A r \in Slots :
        (req[r].pc # "idle" /\ req[r].q.method \notin {"GET", "HEAD"})
        => /\ Done(r)
           /\ req[r].status = 400
           /\ EngineIdle(r)

\* r2 follows r1 and asks for the same repo and ref on the same route
SameRoute(r1, r2) ==
    /\ r2 = r1 + 1 /\ Done(r1) /\ Done(r2)
    /\ req[r1].q.kind = req[r2].q.kind
    /\ req[r1].q.repo = req[r2].q.repo
    /\ req[r1].q.ref = req[r2].q.ref

\* C23: a request with ns=docker.io reaches the engine with the registry
\* registry-1.docker.io: every upstream request goes to that host,
\* X-Proxied-For names it, a manifest it commits is stored under it and
\* nothing is stored under docker.io; a request with one of the two names
\* that follows a commit made under the other is a hit.
C23_DockerIoRewritten ==
    /\ \A r \in Slots :
          (req[r].pc # "idle" /\ req[r].q.ns = "docker.io")
          => /\ req[r].engine
             /\ req[r].obj.Registry = "registry-1.docker.io"
             /\ req[r].proxiedFor = "registry-1.docker.io"
             /\ \A i \in RegistryRequests(r) :
                   HasPrefix(req[r].sent[i].url.base,
                             "https://registry-1.docker.io/v2/")
             /\ (Committed(r) /\ req[r].q.kind = ObjectTypeManifest)
                   => ("registry-1.docker.io/" \o req[r].q.repo \o "/"
                          \o req[r].q.ref) \in DOMAIN fs
    /\ \A path \in DOMAIN fs : ~HasPrefix(path, "docker.io/")
    /\ \A r1, r2 \in Slots :
          (/\ SameRoute(r1, r2)
           /\ req[r1].q.ns \in {"docker.io", "registry-1.docker.io"}
           /\ req[r2].q.ns \in {"docker.io", "registry-1.docker.io"}
           /\ req[r1].outcome = "miss" /\ Committed(r1)
           /\ ~req[r2].fault)
          => req[r2].outcome = "hit" /\ req[r2].nUp = 0

\* a manifest fetched with ns=docker.io was committed and then served from
\* storage to a request with ns=registry-1.docker.io
C23_Witness ==
    \E r1, r2 \in Slots :
        /\ SameRoute(r1, r2)
        /\ req[r1].q.kind = ObjectTypeManifest
        /\ req[r1].q.ns = "docker.io" /\ req[r2].q.ns = "registry-1.docker.io"
        /\ req[r1].outcome = "miss" /\ Committed(r1)
        /\ Len(req[r1].sent) = 1
        /\ req[r2].outcome = "hit" /\ req[r2].out = "ab"
        /\ req[r2].proxiedFor = req[r1].proxiedFor

(***************************************************************************)
(* The skip reason.                                                        *)
(***************************************************************************)
\* the triggers of the skip policy that hold for an identifier
Triggers(s, object) ==
    {t \in {"manifests", "tags", "private", "images"} :
        \/ t = "manifests" /\ ~s.CacheManifests
        \/ t = "tags" /\ Contains(object.Ref, s.SkipTags)
        \/ t = "private" /\ object.Registry \in s.PrivateRegistries
        \/ t = "images" /\ object.Repository \in s.SkipImages}

\* C24: whatever the flags, the skip reason of a blob is empty and the skip
\* reason of a manifest is non-empty exactly when a trigger holds.  The
\* reason is read before the upstream answer, which may replace it; a
\* request with a reason goes upstream without looking the object up.
C24_SkipReason ==
    \A r \in Slots :
        (req[r].engine /\ req[r].status = 0)
        => /\ req[r].obj.Type = ObjectTypeBlob => req[r].skip = ""
           /\ req[r].obj.Type = ObjectTypeManifest
                 => (req[r].skip # "" <=> Triggers(service, req[r].obj) # {})
           /\ req[r].skip # "" => req[r].lookup = "" /\ req[r].pc = "fetch"

\* with manifest caching off and no other trigger a manifest is skipped
C24_Witness ==
    /\ ~service.CacheManifests
    /\ service.PrivateRegistries = {} /\ service.SkipTags = "latest"
    /\ \E r \in Slots :
          /\ req[r].pc = "fetch" /\ req[r].obj = ManPriv
          /\ req[r].skip = "manifests cache disabled"

(***************************************************************************)
(* The storage key.                                                        *)
(***************************************************************************)
\* the key the storage layout gives an identifier (one key: the set binds
\* <hex> once); a blob ref is a digest
StorageKeys(object) ==
    IF object.Type = ObjectTypeBlob
    THEN {"blobs/" \o SubSeq(hex, 1, 2) \o "/" \o hex :
             hex \in {SubSeq(object.Ref, Len("sha256:") + 1, Len(object.Ref))}}
    ELSE {object.Registry \o "/" \o object.Repository \o "/" \o object.Ref}

\* the requests the engine has seen so far are all of one type
OnlyType(type) ==
    \A r \in Slots : req[r].engine => req[r].obj.Type = type

\* C25: a committed blob is stored at blobs/<hex[0:2]>/<hex> and a committed
\* manifest at <registry>/<repository>/<ref>, each with its sidecar beside
\* it, also when the ref of the manifest is a digest: while only manifests
\* were requested nothing is stored under blobs/, and while only blobs were
\* requested nothing is stored outside it but temporary files and what an
\* earlier run left.
C25_StorageKey ==
    /\ \A r \in Slots :
          Committed(r)
          => \A key \in StorageKeys(req[r].obj) :
                /\ key \in DOMAIN fs
                /\ (key \o ".json") \in DOMAIN fs
                /\ req[r].obj.Type = ObjectTypeManifest
                      => ~HasPrefix(key, "blobs/")
    /\ OnlyType(ObjectTypeManifest)
          => \A path \in DOMAIN fs : ~HasPrefix(path, "blobs/")
    /\ OnlyType(ObjectTypeBlob)
          => \A path \in DOMAIN fs :
                \/ HasPrefix(path, "blobs/")
                \/ \E r \in Slots : path = req[r].file
                \/ path \in DOMAIN StaleDir.fs

\* a manifest by digest and the blob with the same digest are both stored,
\* the manifest under its registry and the blob under blobs/
C25_Witness ==
    \E r1, r2 \in Slots :
        /\ req[r1].obj = ManHubDigest /\ Committed(r1)
        /\ req[r2].obj = BlobHub /\ Committed(r2)
        /\ "registry-1.docker.io/app/sha256:e36162" \in DOMAIN fs
        /\ "blobs/e3/e36162" \in DOMAIN fs
        /\ "blobs/e3/e36162.json" \in DOMAIN fs

(***************************************************************************)
(* Release of the storage writer.                                          *)
(***************************************************************************)
\* the temporary files the writers of the model create
TempNames == { TempName(r, o) : r \in Slots, o \in Objects }

\* C26: a handler that has returned has left no temporary file behind,
\* whatever path it returned on; every temporary file in the directory
\* belongs to the writer of a handler that is still running.
C26_WriterReleased ==
    /\ \A r \in Slots :
          Done(r) => ~Exists(fs, TempName(r, req[r].obj))
    /\ \A path \in DOMAIN fs \cap TempNames :
          \E r \in Slots :
              /\ req[r].pc \notin {"idle", "done"}
              /\ req[r].outcome = "miss"
              /\ req[r].file = path

\* one handler returned on a write error of the client sink after bytes went
\* to the temporary file, another on a Close that failed before the rename;
\* no temporary file is left
C26_Witness ==
    \E r1, r2 \in Slots :
        /\ Done(r1) /\ req[r1].outcome = "miss"
        /\ req[r1].ioErr /\ req[r1].out # ""
        /\ Done(r2) /\ req[r2].outcome = "miss"
        /\ req[r2].closeErr /\ ~req[r2].published
        /\ DOMAIN fs \cap TempNames = {}

(***************************************************************************)
(* Errors of the lookup.                                                   *)
(***************************************************************************)
\* C27: when GetCache returned an error the client gets 500 and the request
\* is over: nothing was sent upstream, no counter moved, no file was
\* created, renamed or written by it.
C27_LookupError500 ==
    \A r \in Slots :
        req[r].lookup = "err"
        => /\ Done(r)
           /\ req[r].status = 500
           /\ req[r].out = ""
           /\ req[r].sent = << >> /\ req[r].nUp = 0
           /\ req[r].outcome = ""
           /\ ~req[r].published /\ req[r].sidecar = ""
           /\ ~Exists(fs, TempName(r, req[r].obj))

\* a lookup failed on an I/O error of the file system and the request ended
\* with 500
C27_Witness ==
    \E r \in Slots :
        /\ req[r].lookup = "err" /\ req[r].fault
        /\ Done(r) /\ req[r].status = 500

(***************************************************************************)
(* Headers of the upstream request of a miss.                              *)
(***************************************************************************)
\* no upstream request of r carried Accept-Encoding or Range
SentRawFullRange(r) ==
    \A i \in 1..Len(req[r].sent) :
        req[r].sent[i].AcceptEncoding = "" /\ req[r].sent[i].Range = ""

\* C28: after a lookup that missed, the header set handed upstream has
\* neither Accept-Encoding nor Range, whatever the client sent, and no
\* upstream request of that handler carries them, the retries with
\* credentials included; so no object is renamed into place by a handler
\* that asked upstream for a range or an encoding.
C28_MissStripsRangeAndEncoding ==
    \A r \in Slots :
        /\ req[r].lookup = "miss"
              => /\ req[r].hdr.AcceptEncoding = "" /\ req[r].hdr.Range = ""
                 /\ SentRawFullRange(r)
        /\ req[r].published
              => req[r].lookup = "miss" /\ Len(req[r].sent) >= 1
                 /\ SentRawFullRange(r)

\* a client asked for a range with gzip; the object was fetched without
\* either, after the Bearer exchange, and committed whole
C28_Witness ==
    \E r \in Slots :
        /\ req[r].client.Range = "bytes=0-0"
        /\ req[r].client.AcceptEncoding = "gzip"
        /\ req[r].obj = ManBearer /\ Len(req[r].sent) = 3
        /\ Committed(r) /\ SentRawFullRange(r)
        /\ req[r].out = Upstream(ManBearer).body

(***************************************************************************)
(* The Bearer branch.                                                      *)
(***************************************************************************)
\* C29: in the Bearer branch (a first answer 401, no Authorization from the
\* client, default credentials for the host, a Bearer challenge) the
\* upstream requests are, in this order, the request for the object that
\* was answered 401, one GET of the token URL of
\* the challenge with the default credentials as Basic, and, when a token
\* came back, the request for the object once more with that token as
\* Bearer; a 2xx answer to it goes to the client and is counted and
\* committed as a miss.
C29_BearerOrder ==
    \A r \in Slots :
        (/\ CredsConditions(r)
         /\ HasPrefix(Challenge(req[r].obj.Registry), "Bearer")
         /\ Done(r))
        => /\ Len(req[r].sent) \in {2, 3}
           /\ req[r].sent[1].to = "registry"
           /\ req[r].sent[1].url = UpstreamUrl(req[r].obj)
           /\ req[r].sent[1].Authorization = ""
           /\ req[r].sent[2].to = "token"
           /\ req[r].sent[2].url = TokenUrl(Challenge(req[r].obj.Registry))
           /\ req[r].sent[2].Authorization
                 = "Basic " \o Base64("u:p")
           /\ Len(req[r].sent) = 3
                 => /\ req[r].sent[3].to = "registry"
                    /\ req[r].sent[3].url = UpstreamUrl(req[r].obj)
                    /\ req[r].sent[3].Authorization = "Bearer t"
                    /\ req[r].hdr.Authorization = "Bearer t"
           /\ (Len(req[r].sent) = 3 /\ ~req[r].upErr
                  /\ req[r].status \div 100 = 2)
                 => /\ req[r].status = Upstream(req[r].obj).status
                    /\ req[r].ct = Upstream(req[r].obj).ct
                    /\ IsPrefix(req[r].out, Upstream(req[r].obj).body)
                    /\ req[r].lookup = "miss" /\ req[r].outcome = "miss"
                    /\ CleanFetch(r)
                          => /\ Committed(r)
                             /\ req[r].out = Upstream(req[r].obj).body

\* the exchange succeeded: 401, token, 200; the client got the manifest and
\* it was committed
C29_Witness ==
    \E r \in Slots :
        /\ Done(r) /\ CredsConditions(r)
        /\ HasPrefix(Challenge(req[r].obj.Registry), "Bearer")
        /\ req[r].first = 401
        /\ Len(req[r].sent) = 3
        /\ req[r].status = 200 /\ req[r].out = "a"
        /\ req[r].outcome = "miss" /\ Committed(r)
        /\ Present(fs, ManBearer)

(***************************************************************************)
(* A challenge of another scheme.                                          *)
(***************************************************************************)
\* C30: when the 401 carries a challenge whose scheme is neither Basic nor
\* Bearer, the first upstream request is the only one, the client gets that
\* 401 (status, headers, body) and nothing of it is stored: no temporary
\* file, no payload renamed into place, no sidecar, and the request is
\* counted as skipped.
C30_OtherSchemeReturns401 ==
    \A r \in Slots :
        (/\ CredsConditions(r)
         /\ ~HasPrefix(Challenge(req[r].obj.Registry), "Basic")
         /\ ~HasPrefix(Challenge(req[r].obj.Registry), "Bearer"))
        => /\ Len(req[r].sent) = 1
           /\ req[r].sent[1].to = "registry"
           /\ req[r].sent[1].url = UpstreamUrl(req[r].obj)
           /\ req[r].sent[1].Authorization = ""
           /\ req[r].hdr.Authorization = ""
           /\ req[r].status = 401
           /\ req[r].ct = Unauthorized.ct
           /\ req[r].dcd = Unauthorized.dcd
           /\ IsPrefix(req[r].out, Unauthorized.body)
           /\ (Done(r) /\ ~req[r].isHead /\ ~req[r].ioErr)
                 => req[r].out = Unauthorized.body
           /\ req[r].outcome = "skip"
           /\ ~Exists(fs, TempName(r, req[r].obj))
           /\ ~req[r].published /\ req[r].sidecar = ""

\* the manifest of odd.io was asked for without credentials, the 401 and its
\* body reached the client after one upstream request, nothing is stored
C30_Witness ==
    \E r \in Slots :
        /\ Done(r) /\ CredsConditions(r)
        /\ Challenge(req[r].obj.Registry) = "Negotiate"
        /\ req[r].obj = ManOdd
        /\ Len(req[r].sent) = 1
        /\ req[r].status = 401 /\ req[r].out = Unauthorized.body
        /\ ~Present(fs, ManOdd)

(***************************************************************************)
(* The hit path.                                                           *)
(***************************************************************************)
\* C31: every step of the lookup, and every step of a request the lookup
\* answered with a hit (GET or HEAD), leaves the directory as it is: no
\* temporary file of the writer, no payload, no sidecar is written; such a
\* request has made no upstream request, and of the counters only the hit
\* counter changes, once, when the hit is found.
C31_HitLeavesStorage ==
    [][\A r \in Slots :
          (/\ req'[r] # req[r]
           /\ \/ req'[r].lookup = "hit"
              \/ req[r].pc \in {"stat1", "stat2", "readman"})
          => /\ fs' = fs /\ origin' = origin
             /\ misses' = misses /\ skips' = skips
             /\ hits' = IF req'[r].lookup = "hit" /\ req[r].lookup # "hit"
                        THEN hits + 1 ELSE hits
             /\ req'[r].lookup = "hit"
                   => /\ req'[r].sent = << >> /\ req'[r].nUp = 0
                      /\ req'[r].file = ""
                      /\ ~Exists(fs', TempName(r, req'[r].obj))
                      /\ ~req'[r].published /\ req'[r].sidecar = ""
                      /\ req'[r].outcome = "hit"]_vars

\* a GET was served from storage after the GET that cached the manifest; the
\* directory holds the two files of the manifest and nothing else
C31_Witness ==
    \E r1, r2 \in Slots :
        /\ Follows(r1, r2) /\ Done(r2)
        /\ req[r1].obj = ManV1 /\ req[r2].obj = ManV1
        /\ Committed(r1)
        /\ req[r2].lookup = "hit" /\ ~req[r2].isHead /\ req[r2].out = "ab"
        /\ req[r2].nUp = 0
        /\ DOMAIN fs = {PayloadPath(ManV1), SidecarPath(ManV1)}
        /\ hits = 1 /\ misses = 1 /\ skips = 0

(***************************************************************************)
(* The round trip of the store.                                            *)
(***************************************************************************)
\* C32: when Close of the writer of r1 returned no error after at least one
\* Write, the lookup of the next request for the object, run right after it
\* and meeting no I/O fault, returns a reader: the size is the number of
\* bytes written, the metadata are the content type and the digest given to
\* Close, and the stream yields the bytes written.
C32_CommitThenLookupHits ==
    \A r1, r2 \in Slots :
        (/\ Follows(r1, r2)
         /\ req[r1].published /\ ~req[r1].closeErr
         /\ req[r2].lookup # "" /\ ~req[r2].fault)
        => /\ req[r2].lookup = "hit"
           /\ req[r2].cl = ToString(Len(origin[PayloadPath(req[r1].obj)].body))
           /\ req[r2].ct = req[r1].ct
           /\ req[r2].dcd = ToLower(req[r1].dcd)
           /\ (Done(r2) /\ ~req[r2].isHead /\ ~req[r2].ioErr)
                 => req[r2].out = origin[PayloadPath(req[r1].obj)].body

(***************************************************************************)
(* The blobs of the shared store.                                          *)
(***************************************************************************)
\* C33: the payload stored for a blob hashes to the digest in the ref of
\* the blob, which is the digest in its storage key, whatever digest header
\* the upstream sent.
C33_BlobHashesToRef ==
    \A o \in Objects :
        (o.Type = ObjectTypeBlob /\ Exists(fs, PayloadPath(o)))
        => "sha256:" \o ToLower(Sha256Hex(fs[PayloadPath(o)])) = ToLower(o.Ref)

(***************************************************************************)
(* Identifiers and the files of other identifiers.                         *)
(***************************************************************************)
\* C34: a step of a request leaves the payload file and the sidecar file of
\* every other identifier the clients ask for as they are, neither created
\* nor modified (two names of one blob, the same digest through different
\* registries, count as one identifier of the store).
C34_OtherIdentifiersUntouched ==
    [][\A r \in Slots, o \in ObjectsOf(scenario) :
          (/\ req'[r] # req[r]
           /\ o # req[r].obj
           /\ ~(/\ o.Type = ObjectTypeBlob
                /\ req[r].obj.Type = ObjectTypeBlob
                /\ o.Ref = req[r].obj.Ref))
          => \A path \in {PayloadPath(o), SidecarPath(o)} :
                /\ Exists(fs', path) <=> Exists(fs, path)
                /\ Exists(fs, path) => fs'[path] = fs[path]]_vars

(***************************************************************************)
(* Publication of the payload.                                             *)
(***************************************************************************)
\* C35: in every state, also while misses of one key stream and commit
\* concurrently, a file at a final payload path is the complete body of one
\* fetch that was read to the end without error and passed the digest check
\* (against the digest header, or the ref when there was none); a GET served
\* from storage that the client read to the end delivered such a complete
\* body, never part of one.
C35_PayloadPublishedWhole ==
    /\ \A o \in Objects :
          Exists(fs, PayloadPath(o))
          => /\ PayloadPath(o) \in DOMAIN origin
             /\ fs[PayloadPath(o)] = origin[PayloadPath(o)].body
             /\ origin[PayloadPath(o)].read = Len(origin[PayloadPath(o)].body)
             /\ ~origin[PayloadPath(o)].ioErr
             /\ \A digest \in {IF origin[PayloadPath(o)].dcd = "" THEN o.Ref
                               ELSE ToLower(origin[PayloadPath(o)].dcd)} :
                   HasPrefix(digest, "sha256:")
                   => "sha256:" \o ToLower(Sha256Hex(fs[PayloadPath(o)]))
                         = digest
    /\ \A r \in Slots :
          (/\ Done(r) /\ req[r].lookup = "hit"
           /\ ~req[r].isHead /\ ~req[r].ioErr)
          => \/ \E o \in Objects :
                   /\ PayloadPath(o) = PayloadPath(req[r].obj)
                   /\ req[r].out = Upstream(o).body
             \/ /\ Exists(StaleDir.fs, PayloadPath(req[r].obj))
                /\ req[r].out = StaleDir.fs[PayloadPath(req[r].obj)]

\* two misses of one manifest ran concurrently: one has committed and
\* returned, the other has renamed its temporary file over the payload and
\* is still writing the sidecar; the payload is the whole body
C35_Witness ==
    \E r1, r2 \in Slots :
        /\ r1 # r2
        /\ req[r1].obj = ManV1 /\ req[r2].obj = ManV1
        /\ req[r1].lookup = "miss" /\ req[r2].lookup = "miss"
        /\ Done(r1) /\ Committed(r1)
        /\ req[r2].pc = "write" /\ req[r2].published
        /\ fs[PayloadPath(ManV1)] = "ab"

(***************************************************************************)
(* Concurrent misses of a tag that moves.                                  *)
(***************************************************************************)
\* C36: when two concurrent misses of one manifest got different content
\* from upstream and both have committed (payload renamed, sidecar written
\* in full), the payload and the sidecar in the directory come from one
\* fetch: the sidecar, when it parses, carries the digest of the payload.
C36_PayloadAndSidecarOfOneFetch ==
    \A r1, r2 \in Slots :
        (/\ r1 # r2 /\ Done(r1) /\ Done(r2)
         /\ req[r1].obj = req[r2].obj
         /\ req[r1].obj.Type = ObjectTypeManifest
         /\ req[r1].lookup = "miss" /\ req[r2].lookup = "miss"
         /\ Committed(r1) /\ Committed(r2)
         /\ req[r1].dcd # req[r2].dcd
         /\ Present(fs, req[r1].obj))
        => Unmarshal(fs[SidecarPath(req[r1].obj)]).DockerContentDigest
              = "sha256:" \o Sha256Hex(fs[PayloadPath(req[r1].obj)])

\* C37: once a lookup of a key has returned a hit, every lookup of that key
\* by a request that began later returns a hit as well, when the file
\* system does not fail and nobody deletes a file; requests that began as
\* concurrent misses may still be committing the key meanwhile
C37_HitStaysHit ==
    \A r \in Slots :
        (/\ req[r].hitBefore
         /\ req[r].lookup # ""
         /\ ~req[r].fault)
        => req[r].lookup = "hit"

\* C38: the step in which a handler returns after a Close that succeeded,
\* and in which its deferred Cleanup runs, leaves the payload of the object
\* as it was, leaves of the sidecar what Close wrote, and leaves every other
\* file of the directory, the temporary files of other writers among
\* them, in place and unchanged.
C38_CleanupKeepsPublished ==
    [][\A r \in Slots :
          (/\ req[r].pc \in {"close", "write"}
           /\ req'[r].pc = "done"
           /\ req'[r].outcome = "miss"
           /\ ~req'[r].closeErr)
          => IF req[r].pc = "close" THEN fs' = fs
             ELSE /\ PayloadPath(req[r].obj) \in DOMAIN fs
                  /\ SidecarPath(req[r].obj) \in DOMAIN fs
                  /\ DOMAIN fs' = DOMAIN fs
                  /\ \A p \in DOMAIN fs \ {SidecarPath(req[r].obj)} :
                        fs'[p] = fs[p]
                  /\ \E n \in WriteLengths(SidecarOf(req[r])) :
                        fs'[SidecarPath(req[r].obj)]
                           = Overlay(fs[SidecarPath(req[r].obj)],
                                     SidecarOf(req[r]), n)]_vars

\* a handler returned after a Close that succeeded, its object is in the
\* cache with the body it fetched, and another writer that began as a miss
\* still has its temporary file
C38_Witness ==
    \E r1, r2 \in Slots :
        /\ r1 # r2
        /\ Done(r1) /\ req[r1].outcome = "miss"
        /\ req[r1].published /\ ~req[r1].closeErr
        /\ req[r1].sidecar = "complete"
        /\ Present(fs, req[r1].obj)
        /\ fs[PayloadPath(req[r1].obj)] = req[r1].out
        /\ req[r2].pc \in {"stream", "close"}
        /\ req[r2].lookup = "miss"
        /\ req[r2].file # "" /\ Exists(fs, req[r2].file)

\* C39: an identifier the cache would store and for which the registry
\* answers 2xx with a body of zero bytes is never cached: its writer never
\* has a temporary file, no payload and no sidecar appear under its key,
\* no lookup of it is a hit, and a request for it that missed and got the
\* answer is counted as a miss, went upstream, and its Close returned no
\* error and published nothing.
C39_EmptyBodyNeverCached ==
    \A r \in Slots :
        (/\ req[r].engine
         /\ getSkipReason(service, req[r].obj) = ""
         /\ Upstream(req[r].obj).status \div 100 = 2
         /\ Upstream(req[r].obj).body = "")
        => /\ ~Exists(fs, PayloadPath(req[r].obj))
           /\ ~Exists(fs, SidecarPath(req[r].obj))
           /\ ~Exists(fs, TempName(r, req[r].obj))
           /\ req[r].file = ""
           /\ req[r].lookup \in {"", "miss", "err"}
           /\ req[r].lookup = "err" => req[r].fault
           /\ (Done(r) /\ req[r].lookup = "miss")
                => /\ req[r].nUp >= 1 /\ req[r].sent # << >>
                   /\ ~req[r].published /\ req[r].sidecar = ""
                   /\ ~req[r].closeErr /\ ~req[r].mismatch
           /\ (Done(r) /\ req[r].lookup = "miss" /\ ~req[r].upErr)
                => /\ req[r].status = Upstream(req[r].obj).status
                   /\ req[r].out = ""
                   /\ req[r].outcome = "miss"

\* three GETs of the blob of zero bytes, one after the other: each missed,
\* was answered 200 from upstream and counted as a miss, and the
\* directory is still empty
C39_Witness ==
    /\ \A r \in 1..MaxRepeat :
          /\ Done(r) /\ req[r].obj = BlobEmpty /\ ~req[r].isHead
          /\ req[r].lookup = "miss" /\ req[r].outcome = "miss"
          /\ req[r].status = 200 /\ req[r].nUp = 1
          /\ ~req[r].ioErr
    /\ misses = MaxRepeat /\ hits = 0
    /\ DOMAIN fs = {}
====
